---- MODULE Spec2Model ----
(***************************************************************************)
(* A model of gpt_batch_policy_processor: the file-backed JobManager       *)
(* (job_manager.py), the background wrapper of run_job_async, the          *)
(* per-document loop of main.main, the embedding index builder and the     *)
(* excerpt selector (relevant_excerpts.py), the segmenter (read_pdf.py)    *)
(* the delivery of the results (interface.py) and the subprocess worker    *)
(* (worker.py).                                                            *)
(*                                                                         *)
(* The specifications share the variables:                                 *)
(*   Spec       concurrent JobManager calls on one job file, at the        *)
(*              granularity of the lock and of the file system calls;      *)
(*   SpecRun    one job driven by run_job_async(main) from start to end;   *)
(*   SpecEmbed  the calls of generate_all_embeddings for one document;     *)
(*   SpecSeg    extract_text_chunks_from_pdf for one document;             *)
(*   SpecSelect find_top_relevant_texts for one variable;                  *)
(*   SpecMail   email_results for one artifact;                            *)
(*   SpecWorker long_process (worker.py) for one job directory.            *)
(***************************************************************************)
EXTENDS Integers, Sequences, FiniteSets, TLC

(***************************************************************************)
(* Bounds of the model.                                                    *)
(***************************************************************************)
\* JobManager calls started in one behaviour of Spec
MaxCalls == 3
\* the wall clock takes the values 0..MaxClock
MaxClock == 1
\* documents of a job
MaxPdfs == 2
\* variable specifications of a job
MaxVars == 2
\* text sections the segmenter returns for one document
MaxSections == 2
\* failures of external calls and of file writes injected in one run
MaxFaults == 1
\* chunks of a document
MaxChunks == 3

\* sentences and heading lines of a document
MaxItems == 4
\* the pages of a document that hold text are its first MaxTextPages pages
\* and its last page
MaxTextPages == 2
\* indexed chunks of a section
MaxPool == 3
\* the largest num_excerpts
MaxExcerpts == 3
\* parts split_workbook_by_sheets returns
MaxParts == 3
\* signals delivered to the worker process
MaxSignals == 1
\* heartbeat writes remembered in hb_hist
MaxBeats == 2

\* generate_all_embeddings: token_limit
TokenLimit == 8000
\* extract_text_chunks_from_pdf: the page count above which a document is
\* split into sections
PageLimit == 250
\* check_file_size: the limit on the estimated encoded size, in MB
SizeLimitMB == 25

(***************************************************************************)
(* JobStatus (job_manager.py:18-23)                                        *)
(***************************************************************************)
PENDING == "pending"
RUNNING == "running"
COMPLETED == "completed"
FAILED == "failed"

Mutators == {"w1", "w2"}

\* the keys of the "progress" dictionary (job_manager.py:63-69)
Fields == {"message", "current_pdf", "total_pdfs", "current_variable",
           "total_variables"}

VARIABLES
    file,       \* content of .jobs/<job_id>.json
    lock,       \* JobManager._lock: "free" or the thread holding it
    pc,         \* per mutator thread: position inside the current call
    op,         \* per mutator thread: the call in progress and its arguments
    job_data,   \* per mutator thread: the local dict about to be saved
    now,        \* the last value datetime.utcnow() returned
    seen,       \* what the status poller's last get_job produced
    ncalls,     \* calls started so far
    committed,  \* history: the last record written completely
    log,        \* history: names of the calls whose save completed, in order
    effects     \* history: progress fields set by completed update_progress calls

VARIABLES
    wpc,         \* run_job_async.wrapper: position of the background thread
    mpc,         \* main.main: position
    exc,         \* the exception main's handler holds or main ended with
    fn,          \* how the job's function ended: "none", "returned", "raised"
    ret,         \* the function's return value
    npdfs,       \* len(gpt_analyzer.pdfs)
    nvars,       \* len(gpt_analyzer.variable_specs)
    pdf_idx,     \* main's loop index over the documents, from 1
    nsec,        \* len(text_sections) of the current document
    sec_idx,     \* index of the current text section, from 1
    var_idx,     \* extract_policy_doc_info's loop index, from 1
    failed_pdfs, \* main's list of the documents that could not be read
    output_doc,  \* the in-memory output document: what has been written to it
    delivered,   \* artifacts that left the process (e-mailed or saved)
    trace,       \* history: the external calls made, in order
    marks,       \* history: the terminal marks the wrapper called, in order
    faults       \* history: failures injected so far

storeVars == <<file, lock, pc, op, job_data, now, seen, ncalls, committed, log, effects>>
runVars == <<wpc, mpc, exc, fn, ret, npdfs, nvars, pdf_idx, nsec, sec_idx, var_idx,
             failed_pdfs, output_doc, delivered, trace, marks, faults>>

VARIABLES
    epc,         \* generate_all_embeddings: position
    ecall,       \* "again" for a call made after one has returned, else "first"
    chunks,      \* text_chunks: the token count of each chunk
    bad,         \* the chunks (by index) the embedding service rejects
    cache,       \* the cache file of the document
    batches,     \* the batches built, each a sequence of chunk indices
    bi,          \* index of the next batch to request
    embeddings,  \* the vectors collected so far
    requests,    \* history: the embedding requests issued by this call
    eres,        \* what the call returned
    stored       \* history: what the first call that returned wrote to the cache

embVars == <<epc, ecall, chunks, bad, cache, batches, bi, embeddings, requests, eres,
             stored>>

VARIABLES
    spc,              \* extract_text_chunks_from_pdf: position
    max_chunk_size,   \* its argument
    num_pages,        \* len(doc_md)
    page_num,         \* the page being read, from 1
    doc,              \* history: the sentences and heading lines read, in order
    curr_chunk,       \* the open chunk: the sentences in it (indices into doc)
    curr_page_nums,   \* the pages recorded for the open chunk
    curr_headers,     \* the heading map: level -> title
    text_chunks,      \* the closed chunks
    total_char_count, \* characters of page text read
    text_sections     \* what the call returned

segVars == <<spc, max_chunk_size, num_pages, page_num, doc, curr_chunk, curr_page_nums,
             curr_headers, text_chunks, total_char_count, text_sections>>

\* extract_text_chunks_from_pdf has not been called
SegIdle ==
    /\ spc = "idle" /\ max_chunk_size = 0 /\ num_pages = 0 /\ page_num = 0
    /\ doc = <<>> /\ curr_chunk = <<>> /\ curr_page_nums = {}
    /\ curr_headers = <<>> /\ text_chunks = <<>> /\ total_char_count = 0
    /\ text_sections = <<>>

VARIABLES
    selpc,             \* find_top_relevant_texts: position
    pool,              \* the indexed chunks: for each, whether its text holds
                       \* var_name, its similarity to the variable, its length
    num_excerpts,      \* the argument num_excerpts
    char_budget,       \* extract_policy_doc_info: max_num_chars - 1000
    sel_i,             \* the loop index i, from 1
    indeces,           \* the chunks that hold var_name
    relevant_texts,    \* those chunks, in the order found
    similarity_scores, \* the (i, similarity) pairs, in the order computed
    sel_result         \* the list returned

selVars == <<selpc, pool, num_excerpts, char_budget, sel_i, indeces, relevant_texts,
             similarity_scores, sel_result>>

\* find_top_relevant_texts has not been called
SelIdle ==
    /\ selpc = "idle" /\ pool = <<>> /\ num_excerpts = 0 /\ char_budget = 0
    /\ sel_i = 0 /\ indeces = {} /\ relevant_texts = <<>>
    /\ similarity_scores = <<>> /\ sel_result = <<>>

VARIABLES
    mailpc,           \* email_results: position
    size_mb,          \* the artifact's size in MB
    total_parts,      \* len(split_parts)
    part_num,         \* the loop index over the parts, from 1
    successful_parts, \* the parts whose send returned success
    failed_parts,     \* the parts whose send returned failure
    calls             \* history: the calls of send_single_email and their outcomes

mailVars == <<mailpc, size_mb, total_parts, part_num, successful_parts, failed_parts,
              calls>>

\* email_results has not been called
MailIdle ==
    /\ mailpc = "idle" /\ size_mb = 0 /\ total_parts = 0 /\ part_num = 0
    /\ successful_parts = <<>> /\ failed_parts = <<>> /\ calls = <<>>

VARIABLES
    wkpc,         \* long_process: position
    rc,           \* the value of its return statement (-1: none yet)
    main_out,     \* how the call of main.main ended
    status_txt,   \* content of status.txt
    error_txt,    \* content of error.txt
    result_xlsx,  \* content of result.xlsx
    signals,      \* SIGTERM/SIGINT delivered to the process so far
    hbpc,         \* Heartbeat._loop: position of the heartbeat thread
    hb_stop,      \* Heartbeat._stop: whether the event is set
    hb_hist,      \* history: outcomes of the first writes of heartbeat.txt
    late,         \* history: writes of heartbeat.txt after long_process returned
    status_calls, \* history: the write_status calls, in order
    error_tried,  \* history: a write of error.txt was attempted
    wfaults       \* history: failures injected so far

wkVars == <<wkpc, rc, main_out, status_txt, error_txt, result_xlsx, signals, hbpc,
            hb_stop, hb_hist, late, status_calls, error_tried, wfaults>>

\* long_process has not been called
WorkerIdle ==
    /\ wkpc = "idle" /\ rc = -1 /\ main_out = "none"
    /\ status_txt = "absent" /\ error_txt = "absent" /\ result_xlsx = "absent"
    /\ signals = 0 /\ hbpc = "not_started" /\ hb_stop = FALSE /\ hb_hist = <<>>
    /\ late = 0 /\ status_calls = <<>> /\ error_tried = FALSE /\ wfaults = 0

vars == <<storeVars, runVars, embVars, segVars, selVars, mailVars, wkVars>>

\* what the actions of each specification leave alone
notStore == <<runVars, embVars, segVars, selVars, mailVars, wkVars>>
notRun == <<embVars, segVars, selVars, mailVars, wkVars>>
notEmbed == <<storeVars, runVars, segVars, selVars, mailVars, wkVars>>
notSeg == <<storeVars, runVars, embVars, selVars, mailVars, wkVars>>
notSelect == <<storeVars, runVars, embVars, segVars, mailVars, wkVars>>
notMail == <<storeVars, runVars, embVars, segVars, selVars, wkVars>>
notWorker == <<storeVars, runVars, embVars, segVars, selVars, mailVars>>

(***************************************************************************)
(* The job file and get_job                                                *)
(***************************************************************************)
Absent == [kind |-> "absent"]
\* open(job_file, 'w') has truncated the file and nothing is flushed yet
Empty == [kind |-> "empty"]
\* part of the JSON text has been flushed
Partial == [kind |-> "partial"]
Json(rec) == [kind |-> "json", data |-> rec]

NoRecord == [status |-> "none"]
NullResult == [kind |-> "null"]
\* a JSON-serializable return value of the job's function
SomeResult == [kind |-> "result", num_pdfs |-> 1, failed_pdfs |-> <<>>]
NoOp == [name |-> "none"]

\* get_job: None when the file does not exist, json.load's JSONDecodeError on a
\* file that holds no complete document, the record otherwise
get_job(f) ==
    CASE f.kind = "absent" -> [kind |-> "none"]
      [] f.kind \in {"empty", "partial"} -> [kind |-> "error"]
      [] OTHER -> f

\* the dict built by create_job; t1, t2 are its two clock readings
NewJob(t1, t2) ==
    [status |-> PENDING,
     created_at |-> t1,
     updated_at |-> t2,
     progress |-> [message |-> "Job created", current_pdf |-> 0, total_pdfs |-> 0,
                   current_variable |-> 0, total_variables |-> 0],
     result |-> NullResult,
     error |-> "null"]

\* update_job's merge without the stamp (a slip): updated_at stays as read
UpdateJobRecordKeepsStamp(rec, updates, t) ==
    [k \in DOMAIN rec |-> IF k \in DOMAIN updates THEN updates[k] ELSE rec[k]]

\* update_job's merge: job_data.update(updates); job_data["updated_at"] = utcnow()
UpdateJobRecord(rec, updates, t) ==
    [k \in DOMAIN rec |->
        IF k = "updated_at" THEN t
        ELSE IF k \in DOMAIN updates THEN updates[k] ELSE rec[k]]

\* update_progress: the progress dict of the copy it read, with the given
\* (non-None) arguments assigned
MergeProgress(progress, args) ==
    [f \in DOMAIN progress |-> IF f \in DOMAIN args THEN args[f] ELSE progress[f]]

\* A plausible slip: update_progress hands its whole stale copy to update_job
ProgressUpdatesStale(rec, args) ==
    [progress |-> MergeProgress(rec.progress, args), status |-> rec.status]

\* the updates update_progress passes to update_job: {"progress": progress}
ProgressUpdates(rec, args) ==
    [progress |-> MergeProgress(rec.progress, args)]

RunningUpdates == [status |-> RUNNING]
CompletedUpdates(result) == [status |-> COMPLETED, result |-> result]
\* mark_failed's updates without the error (a slip)
FailedUpdatesNoError(error) == [status |-> FAILED]
\* mark_failed's updates: {"status": FAILED, "error": str(error)}
FailedUpdates(error) == [status |-> FAILED, error |-> error]

\* the values a clock reading can return after `t`
ClockAfter(t) == {u \in 0..MaxClock : t <= u /\ u <= t + 1}

(***************************************************************************)
(* Arguments of the calls of Spec                                          *)
(***************************************************************************)
NewVal(f) == IF f = "message" THEN "working" ELSE 1
\* the field sets the calls of Spec pass: none, each single field, all of them
ArgSets == {S \in SUBSET Fields : Cardinality(S) <= 1 \/ S = Fields}
ProgressArgs == {[f \in S |-> NewVal(f)] : S \in ArgSets}

MarkOps ==
    {[name |-> "mark_running", updates |-> RunningUpdates],
     [name |-> "mark_completed", updates |-> CompletedUpdates(SomeResult)],
     [name |-> "mark_failed", updates |-> FailedUpdates("trace")]}

\* the run of run_job_async is not part of Spec
RunIdle ==
    /\ wpc = "not_started" /\ mpc = "m_none" /\ exc = "none" /\ fn = "none"
    /\ ret = NullResult /\ npdfs = 0 /\ nvars = 0 /\ pdf_idx = 0 /\ nsec = 0
    /\ sec_idx = 0 /\ var_idx = 0 /\ failed_pdfs = <<>> /\ output_doc = <<>>
    /\ delivered = <<>> /\ trace = <<>> /\ marks = <<>> /\ faults = 0

NoCache == [kind |-> "none"]
NoResult == [kind |-> "none"]

\* generate_all_embeddings is not part of Spec and SpecRun
EmbedIdle ==
    /\ epc = "idle" /\ ecall = "none" /\ chunks = <<>> /\ bad = {}
    /\ cache = NoCache /\ batches = <<>> /\ bi = 0 /\ embeddings = <<>>
    /\ requests = <<>> /\ eres = NoResult /\ stored = NoResult

(***************************************************************************)
(* Spec: concurrent calls on one job                                       *)
(***************************************************************************)
Init ==
    /\ file = Absent
    /\ lock = "free"
    /\ pc = [t \in Mutators |-> "idle"]
    /\ op = [t \in Mutators |-> NoOp]
    /\ job_data = [t \in Mutators |-> NoRecord]
    /\ now = 0
    /\ seen = [kind |-> "none"]
    /\ ncalls = 0
    /\ committed = NoRecord
    /\ log = <<>>
    /\ effects = {}
    /\ RunIdle
    /\ EmbedIdle
    /\ SegIdle
    /\ SelIdle
    /\ MailIdle
    /\ WorkerIdle

\* the call returns (or raises) without having written
Return(t) ==
    /\ pc' = [pc EXCEPT ![t] = "idle"]
    /\ op' = [op EXCEPT ![t] = NoOp]
    /\ job_data' = [job_data EXCEPT ![t] = NoRecord]

\* create_job(job_id): builds the record and goes to _save_job without the lock.
\* The job id is fresh, so the file does not exist and nobody else creates it.
CallCreate(t) ==
    /\ pc[t] = "idle" /\ ncalls < MaxCalls
    /\ file = Absent
    /\ \A u \in Mutators : op[u].name # "create_job"
    /\ \E t1 \in ClockAfter(now) : \E t2 \in ClockAfter(t1) :
          /\ job_data' = [job_data EXCEPT ![t] = NewJob(t1, t2)]
          /\ now' = t2
    /\ op' = [op EXCEPT ![t] = [name |-> "create_job"]]
    /\ pc' = [pc EXCEPT ![t] = "save_open"]
    /\ ncalls' = ncalls + 1
    /\ UNCHANGED <<file, lock, seen, committed, log, effects>>
    /\ UNCHANGED notStore

\* mark_running / mark_completed / mark_failed: straight into update_job
CallMark(t) ==
    /\ pc[t] = "idle" /\ ncalls < MaxCalls
    /\ \E m \in MarkOps : op' = [op EXCEPT ![t] = m]
    /\ pc' = [pc EXCEPT ![t] = "uj_lock"]
    /\ ncalls' = ncalls + 1
    /\ UNCHANGED <<file, lock, job_data, now, seen, committed, log, effects>>
    /\ UNCHANGED notStore

CallProgress(t) ==
    /\ pc[t] = "idle" /\ ncalls < MaxCalls
    /\ \E a \in ProgressArgs :
          op' = [op EXCEPT ![t] = [name |-> "update_progress", args |-> a]]
    /\ pc' = [pc EXCEPT ![t] = "up_read"]
    /\ ncalls' = ncalls + 1
    /\ UNCHANGED <<file, lock, job_data, now, seen, committed, log, effects>>
    /\ UNCHANGED notStore

\* update_progress, lines 124-141: get_job outside the lock, early return on
\* None, the progress dict of that copy updated in place
ProgressRead(t) ==
    /\ pc[t] = "up_read"
    /\ LET r == get_job(file) IN
          IF r.kind = "json"
          THEN /\ op' = [op EXCEPT ![t] =
                        [name |-> "update_progress", args |-> op[t].args,
                         updates |-> ProgressUpdates(r.data, op[t].args)]]
               /\ pc' = [pc EXCEPT ![t] = "uj_lock"]
               /\ UNCHANGED job_data
          ELSE Return(t)
    /\ UNCHANGED <<file, lock, now, seen, ncalls, committed, log, effects>>
    /\ UNCHANGED notStore

\* update_job: with self._lock
UpdateLock(t) ==
    /\ pc[t] = "uj_lock"
    /\ lock = "free"
    /\ lock' = t
    /\ pc' = [pc EXCEPT ![t] = "uj_read"]
    /\ UNCHANGED <<file, op, job_data, now, seen, ncalls, committed, log, effects>>
    /\ UNCHANGED notStore

\* update_job, lines 103-108: read, return on None, merge, stamp
UpdateRead(t) ==
    /\ pc[t] = "uj_read"
    /\ LET r == get_job(file) IN
          IF r.kind = "json"
          THEN \E u \in ClockAfter(now) :
                  /\ job_data' = [job_data EXCEPT ![t] =
                                    UpdateJobRecord(r.data, op[t].updates, u)]
                  /\ now' = u
                  /\ pc' = [pc EXCEPT ![t] = "save_open"]
                  /\ UNCHANGED <<op, lock>>
          ELSE /\ Return(t)
               /\ lock' = "free"
               /\ UNCHANGED now
    /\ UNCHANGED <<file, seen, ncalls, committed, log, effects>>
    /\ UNCHANGED notStore

\* _save_job: open(job_file, 'w') truncates the file
SaveOpen(t) ==
    /\ pc[t] = "save_open"
    /\ file' = Empty
    /\ pc' = [pc EXCEPT ![t] = "save_write"]
    /\ UNCHANGED <<lock, op, job_data, now, seen, ncalls, committed, log, effects>>
    /\ UNCHANGED notStore

\* _save_job: json.dump's buffer is flushed before the text is complete
SaveFlush(t) ==
    /\ pc[t] = "save_write"
    /\ file = Empty
    /\ file' = Partial
    /\ UNCHANGED <<lock, pc, op, job_data, now, seen, ncalls, committed, log, effects>>
    /\ UNCHANGED notStore

\* _save_job: the text is complete and the file closed; update_job leaves the
\* with block
SaveWrite(t) ==
    /\ pc[t] = "save_write"
    /\ file' = Json(job_data[t])
    /\ lock' = IF lock = t THEN "free" ELSE lock
    /\ committed' = job_data[t]
    /\ log' = Append(log, op[t].name)
    /\ effects' = IF op[t].name = "update_progress"
                  THEN effects \cup DOMAIN op[t].args ELSE effects
    /\ Return(t)
    /\ UNCHANGED <<now, seen, ncalls>>
    /\ UNCHANGED notStore

\* a status poller: get_job_status -> get_job, no lock
Poll ==
    /\ seen' = get_job(file)
    /\ UNCHANGED <<file, lock, pc, op, job_data, now, ncalls, committed, log, effects>>
    /\ UNCHANGED notStore

Next ==
    \/ \E t \in Mutators :
          \/ CallCreate(t) \/ CallMark(t) \/ CallProgress(t)
          \/ ProgressRead(t) \/ UpdateLock(t) \/ UpdateRead(t)
          \/ SaveOpen(t) \/ SaveFlush(t) \/ SaveWrite(t)
    \/ Poll

Spec == Init /\ [][Next]_vars

(***************************************************************************)
(* SpecRun: one job run by run_job_async(job_id, main, ...)                *)
(*                                                                         *)
(* The thread is alone on the job file, so each JobManager call is one     *)
(* step.  A call of an external collaborator (PDF reader, embedding and    *)
(* chat service, document writer, mail service) is one step whose outcome  *)
(* is chosen here: it returns, or it raises.                               *)
(***************************************************************************)
StoreIdle ==
    /\ lock = "free"
    /\ pc = [t \in Mutators |-> "idle"]
    /\ op = [t \in Mutators |-> NoOp]
    /\ job_data = [t \in Mutators |-> NoRecord]
    /\ seen = [kind |-> "none"]
    /\ ncalls = 0
    /\ log = <<>>
    /\ effects = {}

storeOnly == <<lock, pc, op, job_data, seen, ncalls, log, effects>>

\* main.py:564-578: create_job has returned and run_job_async is called
InitRun ==
    /\ file = Json(NewJob(0, 0))
    /\ committed = NewJob(0, 0)
    /\ now = 0
    /\ StoreIdle
    /\ wpc = "not_started" /\ mpc = "m_none" /\ exc = "none" /\ fn = "none"
    /\ ret = NullResult
    /\ npdfs \in 0..MaxPdfs
    /\ nvars \in 0..MaxVars
    /\ pdf_idx = 0 /\ nsec = 0 /\ sec_idx = 0 /\ var_idx = 0
    /\ failed_pdfs = <<>> /\ output_doc = <<>> /\ delivered = <<>>
    /\ trace = <<>> /\ marks = <<>> /\ faults = 0
    /\ EmbedIdle
    /\ SegIdle
    /\ SelIdle
    /\ MailIdle
    /\ WorkerIdle

\* what a raising call can raise: an Exception, or a BaseException that is
\* not an Exception (SystemExit, KeyboardInterrupt, GeneratorExit)
Raises == IF faults < MaxFaults THEN {"Exception", "BaseException"} ELSE {}
\* the outcomes of a call of an external collaborator
Outcomes == {"ok"} \cup Raises

\* update_job(job_id, updates) as one step: the outcomes are the file it
\* leaves, the clock, and whether it raised.  A missing file makes it return,
\* an undecodable one makes json.load raise; open() can fail and leave the
\* file as it was, and a failed write leaves it truncated.
UpdateJobOutcomes(updates) ==
    LET r == get_job(file) IN
    IF r.kind = "none" THEN {[file |-> file, now |-> now, res |-> "ok"]}
    ELSE IF r.kind = "error" THEN {[file |-> file, now |-> now, res |-> "raise"]}
    ELSE {[file |-> Json(UpdateJobRecord(r.data, updates, u)), now |-> u, res |-> "ok"] :
              u \in ClockAfter(now)}
         \cup {[file |-> f, now |-> now, res |-> "raise"] :
                  f \in IF faults < MaxFaults THEN {file, Empty, Partial} ELSE {}}

\* update_progress(job_id, **args) as one step: get_job, then update_job
UpdateProgressOutcomes(args) ==
    LET r == get_job(file) IN
    IF r.kind = "none" THEN {[file |-> file, now |-> now, res |-> "ok"]}
    ELSE IF r.kind = "error" THEN {[file |-> file, now |-> now, res |-> "raise"]}
    ELSE UpdateJobOutcomes(ProgressUpdates(r.data, args))

\* the call with outcome o changes the file, the clock and the history
Stored(o) ==
    /\ file' = o.file
    /\ now' = o.now
    /\ committed' = IF o.file.kind = "json" THEN o.file.data ELSE committed
    /\ faults' = IF o.res = "raise" /\ get_job(file).kind = "json"
                 THEN faults + 1 ELSE faults

Event(name, p, s, v) == <<name, p, s, v>>

\* run_job_async.wrapper, line 252: `except Exception` catches e or the
\* thread ends with e uncaught
WrapperCatch(e) == IF e = "Exception" THEN "mark_failed" ELSE "dead"

\* main ends by raising e
MainRaises(e) ==
    /\ fn' = "raised"
    /\ exc' = e
    /\ mpc' = "m_done"
    /\ wpc' = WrapperCatch(e)

\* e is raised inside main's try block (lines 246-311): `except Exception`
\* takes it to the handler at line 312, anything else leaves main
RaisedInTry(e) ==
    IF e = "Exception"
    THEN mpc' = "m_except" /\ exc' = e /\ UNCHANGED <<fn, wpc>>
    ELSE MainRaises(e)

\* thread.start()
WStart ==
    /\ wpc = "not_started"
    /\ wpc' = "mark_running"
    /\ UNCHANGED <<storeVars, mpc, exc, fn, ret, npdfs, nvars, pdf_idx, nsec, sec_idx,
                   var_idx, failed_pdfs, output_doc, delivered, trace, marks, faults>>
    /\ UNCHANGED notRun

\* wrapper, line 249: job_manager.mark_running(job_id), inside the try
WMarkRunning ==
    /\ wpc = "mark_running"
    /\ \E o \in UpdateJobOutcomes(RunningUpdates) :
          /\ Stored(o)
          /\ IF o.res = "ok"
             THEN wpc' = "target" /\ mpc' = "m_init" /\ exc' = exc
             ELSE wpc' = WrapperCatch("Exception") /\ mpc' = mpc /\ exc' = "Exception"
    /\ UNCHANGED <<storeOnly, fn, ret, npdfs, nvars, pdf_idx, nsec, sec_idx, var_idx,
                   failed_pdfs, output_doc, delivered, trace, marks>>
    /\ UNCHANGED notRun

\* main, lines 225-232: the first update_progress, outside the try block
MInit ==
    /\ wpc = "target" /\ mpc = "m_init"
    /\ \E o \in UpdateProgressOutcomes(
                  [message |-> "Initializing document processing...",
                   total_pdfs |-> npdfs, current_pdf |-> 0]) :
          /\ Stored(o)
          /\ IF o.res = "ok"
             THEN mpc' = "m_format" /\ UNCHANGED <<fn, exc, wpc>>
             ELSE MainRaises("Exception")
    /\ UNCHANGED <<storeOnly, ret, npdfs, nvars, pdf_idx, nsec, sec_idx, var_idx,
                   failed_pdfs, output_doc, delivered, trace, marks>>
    /\ UNCHANGED notRun

\* the loop header at line 241: the next document, or the code after the loop
NextPdf(k) == IF k < npdfs THEN "m_pdf" ELSE "m_metrics"

\* main, lines 234-239: Workbook(), format_output_doc, get_gpt_model
MFormat ==
    /\ wpc = "target" /\ mpc = "m_format"
    /\ \E r \in Outcomes :
          IF r = "ok"
          THEN /\ output_doc' = <<Event("header", 0, 0, 0)>>
               /\ mpc' = NextPdf(0)
               /\ pdf_idx' = IF 0 < npdfs THEN 1 ELSE 0
               /\ UNCHANGED <<fn, exc, wpc, faults>>
          ELSE /\ MainRaises(r)
               /\ faults' = faults + 1
               /\ UNCHANGED <<output_doc, pdf_idx>>
    /\ UNCHANGED <<storeVars, ret, npdfs, nvars, nsec, sec_idx, var_idx, failed_pdfs,
                   delivered, trace, marks>>
    /\ UNCHANGED notRun

\* main, lines 248-253: update_progress for the document, inside the try
MPdfProgress ==
    /\ wpc = "target" /\ mpc = "m_pdf"
    /\ \E o \in UpdateProgressOutcomes(
                  [message |-> "Processing PDF", current_pdf |-> pdf_idx]) :
          /\ Stored(o)
          /\ IF o.res = "ok"
             THEN mpc' = "m_segment" /\ UNCHANGED <<fn, exc, wpc>>
             ELSE RaisedInTry("Exception")
    /\ UNCHANGED <<storeOnly, ret, npdfs, nvars, pdf_idx, nsec, sec_idx, var_idx,
                   failed_pdfs, output_doc, delivered, trace, marks>>
    /\ UNCHANGED notRun

\* main, line 260, for a document whose first section carries "error"
\* (a slip: the document is not recorded)
RecordFailedForgets(failed, pdf) == failed

\* main, line 260: failed_pdfs.append(pdf)
RecordFailed(failed, pdf) == Append(failed, pdf)

\* main, lines 257-264: extract_text_chunks_from_pdf returns the sections of
\* the document, or (read_pdf.py:153-163) one section carrying "error"; on
\* "error" the document is recorded and the loop continues
MSegment ==
    /\ wpc = "target" /\ mpc = "m_segment"
    /\ \/ /\ failed_pdfs' = RecordFailed(failed_pdfs, pdf_idx)
          /\ trace' = Append(trace, Event("segment_error", pdf_idx, 0, 0))
          /\ mpc' = NextPdf(pdf_idx)
          /\ pdf_idx' = IF pdf_idx < npdfs THEN pdf_idx + 1 ELSE pdf_idx
          /\ UNCHANGED <<nsec, sec_idx>>
       \/ \E n \in 1..MaxSections :
             /\ nsec' = n
             /\ sec_idx' = 1
             /\ trace' = Append(trace, Event("segment", pdf_idx, 0, 0))
             /\ mpc' = "m_embed"
             /\ UNCHANGED <<failed_pdfs, pdf_idx>>
    /\ UNCHANGED <<storeVars, wpc, exc, fn, ret, npdfs, nvars, var_idx, output_doc,
                   delivered, marks, faults>>
    /\ UNCHANGED notRun

\* main, lines 277-280: generate_all_embeddings for the section
MEmbed ==
    /\ wpc = "target" /\ mpc = "m_embed"
    /\ \E r \in Outcomes :
          IF r = "ok"
          THEN /\ trace' = Append(trace, Event("embed", pdf_idx, sec_idx, 0))
               /\ mpc' = "m_embed_vars"
               /\ UNCHANGED <<fn, exc, wpc, faults>>
          ELSE /\ trace' = Append(trace, Event("embed_failed", pdf_idx, sec_idx, 0))
               /\ RaisedInTry(r)
               /\ faults' = faults + 1
    /\ UNCHANGED <<storeVars, ret, npdfs, nvars, pdf_idx, nsec, sec_idx, var_idx,
                   failed_pdfs, output_doc, delivered, marks>>
    /\ UNCHANGED notRun

\* the loop over the variables left after its first turn (a slip)
NextVarOnlyFirst(v) == IF v < 1 /\ v < nvars THEN "m_var" ELSE "m_output"

\* extract_policy_doc_info's loop header (line 103): the next variable, or
\* the return to main's output_results (line 308)
NextVar(v) == IF v < nvars THEN "m_var" ELSE "m_output"

\* main, lines 282-288: embed_variable_specifications, get_num_excerpts; then
\* extract_policy_doc_info up to its loop (lines 95-102)
MEmbedVars ==
    /\ wpc = "target" /\ mpc = "m_embed_vars"
    /\ \E r \in Outcomes :
          IF r = "ok"
          THEN /\ trace' = Append(trace, Event("embed_vars", pdf_idx, sec_idx, 0))
               /\ mpc' = NextVar(0)
               /\ var_idx' = IF 0 < nvars THEN 1 ELSE 0
               /\ UNCHANGED <<fn, exc, wpc, faults>>
          ELSE /\ RaisedInTry(r)
               /\ faults' = faults + 1
               /\ UNCHANGED <<trace, var_idx>>
    /\ UNCHANGED <<storeVars, ret, npdfs, nvars, pdf_idx, nsec, sec_idx, failed_pdfs,
                   output_doc, delivered, marks>>
    /\ UNCHANGED notRun

\* extract_policy_doc_info, lines 105-112: update_progress for the variable
MVarProgress ==
    /\ wpc = "target" /\ mpc = "m_var"
    /\ \E o \in UpdateProgressOutcomes(
                  [message |-> "Processing variable", current_variable |-> var_idx,
                   total_variables |-> nvars]) :
          /\ Stored(o)
          /\ IF o.res = "ok"
             THEN mpc' = "m_query" /\ UNCHANGED <<fn, exc, wpc>>
             ELSE RaisedInTry("Exception")
    /\ UNCHANGED <<storeOnly, ret, npdfs, nvars, pdf_idx, nsec, sec_idx, var_idx,
                   failed_pdfs, output_doc, delivered, trace, marks>>
    /\ UNCHANGED notRun

\* extract_policy_doc_info, lines 114-145: the excerpts, the query and the
\* formatted response of one variable
MQuery ==
    /\ wpc = "target" /\ mpc = "m_query"
    /\ \E r \in Outcomes :
          IF r = "ok"
          THEN /\ trace' = Append(trace, Event("query", pdf_idx, sec_idx, var_idx))
               /\ mpc' = NextVar(var_idx)
               /\ var_idx' = IF var_idx < nvars THEN var_idx + 1 ELSE var_idx
               /\ UNCHANGED <<fn, exc, wpc, faults>>
          ELSE /\ RaisedInTry(r)
               /\ faults' = faults + 1
               /\ UNCHANGED <<trace, var_idx>>
    /\ UNCHANGED <<storeVars, ret, npdfs, nvars, pdf_idx, nsec, sec_idx, failed_pdfs,
                   output_doc, delivered, marks>>
    /\ UNCHANGED notRun

\* main, line 308: output_results writes the section's results to the
\* document; then the next section (line 266) or the next document (line 241)
MOutput ==
    /\ wpc = "target" /\ mpc = "m_output"
    /\ \E r \in Outcomes :
          IF r = "ok"
          THEN /\ output_doc' = Append(output_doc, Event("results", pdf_idx, sec_idx, 0))
               /\ IF sec_idx < nsec
                  THEN /\ sec_idx' = sec_idx + 1
                       /\ mpc' = "m_embed"
                       /\ UNCHANGED pdf_idx
                  ELSE /\ mpc' = NextPdf(pdf_idx)
                       /\ pdf_idx' = IF pdf_idx < npdfs THEN pdf_idx + 1 ELSE pdf_idx
                       /\ UNCHANGED sec_idx
               /\ UNCHANGED <<fn, exc, wpc, faults>>
          ELSE /\ RaisedInTry(r)
               /\ faults' = faults + 1
               /\ UNCHANGED <<output_doc, pdf_idx, sec_idx>>
    /\ UNCHANGED <<storeVars, ret, npdfs, nvars, nsec, var_idx, failed_pdfs, delivered,
                   trace, marks>>
    /\ UNCHANGED notRun

\* main's handler swallows the exception and goes on with the next document
\* (a slip)
AfterHandlerContinues == "continue"

\* main, lines 323-324: "Raise the exception so job_manager marks it as failed"
AfterHandler == "raise"

\* main, lines 312-324: the handler writes the metrics to the in-memory
\* document (its own failure is printed and dropped), then re-raises
MExcept ==
    /\ wpc = "target" /\ mpc = "m_except"
    /\ \E r \in Outcomes :
          /\ faults' = IF r = "ok" THEN faults ELSE faults + 1
          /\ IF r = "BaseException"
             THEN MainRaises(r) /\ UNCHANGED <<output_doc, pdf_idx>>
             ELSE /\ output_doc' = IF r = "ok"
                                   THEN Append(output_doc, Event("metrics", 0, 0, 0))
                                   ELSE output_doc
                  /\ IF AfterHandler = "raise"
                     THEN MainRaises(exc) /\ UNCHANGED pdf_idx
                     ELSE /\ mpc' = NextPdf(pdf_idx)
                          /\ pdf_idx' = IF pdf_idx < npdfs THEN pdf_idx + 1 ELSE pdf_idx
                          /\ UNCHANGED <<fn, exc, wpc>>
    /\ UNCHANGED <<storeVars, ret, npdfs, nvars, nsec, sec_idx, var_idx, failed_pdfs,
                   delivered, trace, marks>>
    /\ UNCHANGED notRun

\* main, lines 326-332: output_metrics after the loop
MMetrics ==
    /\ wpc = "target" /\ mpc = "m_metrics"
    /\ \E r \in Outcomes :
          IF r = "ok"
          THEN /\ output_doc' = Append(output_doc, Event("metrics", 0, 0, 0))
               /\ mpc' = "m_finalizing"
               /\ UNCHANGED <<fn, exc, wpc, faults>>
          ELSE /\ MainRaises(r)
               /\ faults' = faults + 1
               /\ UNCHANGED output_doc
    /\ UNCHANGED <<storeVars, ret, npdfs, nvars, pdf_idx, nsec, sec_idx, var_idx,
                   failed_pdfs, delivered, trace, marks>>
    /\ UNCHANGED notRun

\* main, lines 335-339: update_progress "Finalizing output document..."
MFinalizing ==
    /\ wpc = "target" /\ mpc = "m_finalizing"
    /\ \E o \in UpdateProgressOutcomes(
                  [message |-> "Finalizing output document and sending email..."]) :
          /\ Stored(o)
          /\ IF o.res = "ok"
             THEN mpc' = "m_email" /\ UNCHANGED <<fn, exc, wpc>>
             ELSE MainRaises("Exception")
    /\ UNCHANGED <<storeOnly, ret, npdfs, nvars, pdf_idx, nsec, sec_idx, var_idx,
                   failed_pdfs, output_doc, delivered, trace, marks>>
    /\ UNCHANGED notRun

\* main, lines 355-361: the result dict main returns; the page total and the
\* file size, which do not depend on the delivery either, are left out
ResultSummary(n, failed) ==
    [kind |-> "result", num_pdfs |-> n, failed_pdfs |-> failed,
     email_sent_to |-> "recipient"]

\* main, lines 341-369: the document is serialised and handed to
\* email_results, which sends it, or prints that it could not and returns, or
\* raises; then main returns its result summary
MEmail ==
    /\ wpc = "target" /\ mpc = "m_email"
    /\ \/ /\ delivered' = Append(delivered, output_doc)
          /\ UNCHANGED faults
       \/ /\ faults < MaxFaults
          /\ faults' = faults + 1
          /\ UNCHANGED delivered
    /\ ret' = ResultSummary(npdfs, failed_pdfs)
    /\ fn' = "returned"
    /\ mpc' = "m_done"
    /\ wpc' = "mark_completed"
    /\ UNCHANGED <<storeVars, exc, npdfs, nvars, pdf_idx, nsec, sec_idx, var_idx,
                   failed_pdfs, output_doc, trace, marks>>
    /\ UNCHANGED notRun

\* main, lines 341-350: saving the document or email_results raises
MEmailRaises ==
    /\ wpc = "target" /\ mpc = "m_email"
    /\ \E r \in Raises :
          /\ MainRaises(r)
          /\ faults' = faults + 1
    /\ UNCHANGED <<storeVars, ret, npdfs, nvars, pdf_idx, nsec, sec_idx, var_idx,
                   failed_pdfs, output_doc, delivered, trace, marks>>
    /\ UNCHANGED notRun

\* wrapper, line 251: job_manager.mark_completed(job_id, result)
WMarkCompleted ==
    /\ wpc = "mark_completed"
    /\ marks' = Append(marks, "mark_completed")
    /\ \E o \in UpdateJobOutcomes(CompletedUpdates(ret)) :
          /\ Stored(o)
          /\ IF o.res = "ok"
             THEN wpc' = "ended" /\ exc' = exc
             ELSE wpc' = WrapperCatch("Exception") /\ exc' = "Exception"
    /\ UNCHANGED <<storeOnly, mpc, fn, ret, npdfs, nvars, pdf_idx, nsec, sec_idx,
                   var_idx, failed_pdfs, output_doc, delivered, trace>>
    /\ UNCHANGED notRun

\* wrapper, lines 252-256: the handler calls mark_failed with the traceback;
\* if that raises, nothing catches it and the thread ends
WMarkFailed ==
    /\ wpc = "mark_failed"
    /\ marks' = Append(marks, "mark_failed")
    /\ \E o \in UpdateJobOutcomes(FailedUpdates("trace")) :
          /\ Stored(o)
          /\ wpc' = IF o.res = "ok" THEN "ended" ELSE "dead"
    /\ UNCHANGED <<storeOnly, mpc, exc, fn, ret, npdfs, nvars, pdf_idx, nsec, sec_idx,
                   var_idx, failed_pdfs, output_doc, delivered, trace>>
    /\ UNCHANGED notRun

\* the thread is a daemon thread (line 258): when the process exits it stops
\* wherever it is
ProcessExit ==
    /\ wpc \in {"mark_running", "target", "mark_completed", "mark_failed"}
    /\ wpc' = "killed"
    /\ UNCHANGED <<storeVars, mpc, exc, fn, ret, npdfs, nvars, pdf_idx, nsec, sec_idx,
                   var_idx, failed_pdfs, output_doc, delivered, trace, marks, faults>>
    /\ UNCHANGED notRun

NextRun ==
    \/ WStart \/ WMarkRunning
    \/ MInit \/ MFormat \/ MPdfProgress \/ MSegment \/ MEmbed \/ MEmbedVars
    \/ MVarProgress \/ MQuery \/ MOutput \/ MExcept \/ MMetrics \/ MFinalizing
    \/ MEmail \/ MEmailRaises
    \/ WMarkCompleted \/ WMarkFailed
    \/ ProcessExit

SpecRun == InitRun /\ [][NextRun]_vars

(***************************************************************************)
(* SpecEmbed: generate_all_embeddings for one document fingerprint         *)
(*                                                                         *)
(* A text chunk is known by its token count.  The embedding service        *)
(* rejects a request that holds a chunk of `bad`; what it does with an     *)
(* empty input list is left open.                                          *)
(***************************************************************************)
TokenSizes == {4000, 9000}
ChunkLists == UNION {[1..n -> TokenSizes] : n \in 0..MaxChunks}

\* the vector the service returns for a text
Embedding(text) == [of |-> text]

\* relevant_excerpts.py:56-70: the greedy packing of the chunks (by index)
\* into batches; bs are the closed batches, cur the open one, tok its tokens
RECURSIVE BatchFold(_, _, _, _, _)
BatchFold(c, i, bs, cur, tok) ==
    IF i > Len(c)
    THEN IF Len(cur) > 0 THEN Append(bs, cur) ELSE bs
    ELSE IF tok + c[i] > TokenLimit
         THEN BatchFold(c, i + 1, Append(bs, cur), <<i>>, c[i])
         ELSE BatchFold(c, i + 1, bs, Append(cur, i), tok + c[i])

Batches(c) == BatchFold(c, 1, <<>>, <<>>, 0)

InitEmbed ==
    /\ EmbedIdle
    /\ file = Absent /\ committed = NoRecord /\ now = 0
    /\ StoreIdle
    /\ RunIdle
    /\ SegIdle
    /\ SelIdle
    /\ MailIdle
    /\ WorkerIdle

\* a call for the document, when no other is running: one of the first, or
\* one made after a call has returned; the chunk list passed in is the
\* caller's
ECall ==
    /\ epc \in {"idle", "returned", "raised"}
    /\ ecall' = IF stored.kind = "cached" THEN "again" ELSE "first"
    /\ \E c \in ChunkLists : \E b \in SUBSET DOMAIN c :
          /\ chunks' = c
          /\ bad' = b
    /\ epc' = "cache_check"
    /\ batches' = <<>> /\ bi' = 0 /\ embeddings' = <<>> /\ requests' = <<>>
    /\ eres' = NoResult
    /\ UNCHANGED <<cache, stored>>
    /\ UNCHANGED notEmbed

\* line 46: os.path.exists(cache_fname); the file name is made from the
\* document's basename alone (get_cache_fname, lines 7-16)
CacheExistsForChunks == cache.kind = "cached" /\ cache.text_chunks = chunks
CacheExists == cache.kind # "none"

\* lines 45-50: the cache file exists and its content is returned
ECacheHit ==
    /\ epc = "cache_check"
    /\ CacheExists
    /\ cache.kind = "cached"
    /\ eres' = [kind |-> "ok", embeddings |-> cache.embeddings,
                text_chunks |-> cache.text_chunks]
    /\ epc' = "returned"
    /\ UNCHANGED <<ecall, chunks, bad, cache, batches, bi, embeddings, requests, stored>>
    /\ UNCHANGED notEmbed

\* lines 47-53: the cache file exists and cannot be decoded; the exception is
\* logged and raised
ECacheCorrupt ==
    /\ epc = "cache_check"
    /\ CacheExists
    /\ cache.kind = "corrupt"
    /\ eres' = [kind |-> "raise", at |-> "cache_read"]
    /\ epc' = "raised"
    /\ UNCHANGED <<ecall, chunks, bad, cache, batches, bi, embeddings, requests, stored>>
    /\ UNCHANGED notEmbed

\* lines 54-72: no cache file; the batches are built
EBuildBatches ==
    /\ epc = "cache_check"
    /\ ~CacheExists
    /\ batches' = Batches(chunks)
    /\ bi' = 1
    /\ epc' = "request"
    /\ UNCHANGED <<ecall, chunks, bad, cache, embeddings, requests, eres, stored>>
    /\ UNCHANGED notEmbed

\* the service's answers to a request for the chunks of batch b
RequestSucceeds(b) ==
    IF Len(b) = 0 THEN BOOLEAN
    ELSE {\A k \in DOMAIN b : b[k] \notin bad}

\* lines 73-75 and 79-81 (generate_embeddings, lines 25-32): one request for
\* the batch; its vectors are appended, or the exception is logged and raised
ERequest ==
    /\ epc = "request"
    /\ bi <= Len(batches)
    /\ requests' = Append(requests, batches[bi])
    /\ \E ok \in RequestSucceeds(batches[bi]) :
          IF ok
          THEN /\ embeddings' = embeddings \o
                      [k \in DOMAIN batches[bi] |-> Embedding(chunks[batches[bi][k]])]
               /\ bi' = bi + 1
               /\ UNCHANGED <<epc, eres>>
          ELSE /\ epc' = "raised"
               /\ eres' = [kind |-> "raise", at |-> "request"]
               /\ UNCHANGED <<embeddings, bi>>
    /\ UNCHANGED <<ecall, chunks, bad, cache, batches, stored>>
    /\ UNCHANGED notEmbed

\* lines 77-78: cache_embeddings, then the return
EStore ==
    /\ epc = "request"
    /\ bi > Len(batches)
    /\ cache' = [kind |-> "cached", embeddings |-> embeddings, text_chunks |-> chunks]
    /\ eres' = [kind |-> "ok", embeddings |-> embeddings, text_chunks |-> chunks]
    /\ stored' = IF stored.kind = "none" THEN cache' ELSE stored
    /\ epc' = "returned"
    /\ UNCHANGED <<ecall, chunks, bad, batches, bi, embeddings, requests>>
    /\ UNCHANGED notEmbed

\* lines 18-22 and 77-81: cache_embeddings opens the cache file for writing
\* and the write fails; the file is left undecodable and the call raises
EStoreFails ==
    /\ epc = "request"
    /\ bi > Len(batches)
    /\ cache' = [kind |-> "corrupt"]
    /\ eres' = [kind |-> "raise", at |-> "cache_write"]
    /\ epc' = "raised"
    /\ UNCHANGED <<ecall, chunks, bad, batches, bi, embeddings, requests, stored>>
    /\ UNCHANGED notEmbed

NextEmbed ==
    \/ ECall \/ ECacheHit \/ ECacheCorrupt \/ EBuildBatches \/ ERequest
    \/ EStore \/ EStoreFails

SpecEmbed == InitEmbed /\ [][NextEmbed]_vars

(***************************************************************************)
(* SpecSeg: extract_text_chunks_from_pdf for one document                  *)
(*                                                                         *)
(* The document is read as it comes: a sentence of some length, a heading  *)
(* line of some level, or the end of the page.  A sentence is known by its *)
(* index in doc; the text of a chunk is the sequence of its sentences,     *)
(* each followed by one space.  The paragraph buffer of the code delays    *)
(* the sentences of a paragraph to the next heading line or to the end of  *)
(* the page without reordering them or changing the page they are counted  *)
(* on, so each sentence is packed when it is read.  Pages after the first  *)
(* may be empty, and a run of empty pages is read in one step.             *)
(***************************************************************************)
ChunkSizes == {4, 5}
SentenceLens == {1, 5}
HeadingLevels == {1, 2, 3}
PageCounts == {1, 2, PageLimit, PageLimit + 1, 2 * PageLimit, 2 * PageLimit + 1}

RECURSIVE SumLens(_)
\* len of the string that holds the sentences ids, each followed by " "
SumLens(ids) ==
    IF ids = <<>> THEN 0
    ELSE doc[Head(ids)].len + 1 + SumLens(Tail(ids))

\* len(curr_chunk)
StrLen(ids) == SumLens(ids)
\* len(curr_chunk.strip()): the trailing space is gone
StrippedLen(ids) == IF ids = <<>> THEN 0 ELSE SumLens(ids) - 1

\* line 91 / 109: the sentence still fits
Fits(ids, l) == StrLen(ids) + l < max_chunk_size

\* add_text_chunks, lines 39-51: with an open chunk of more than one
\* character the chunk is closed and a new one starts with the sentence;
\* otherwise nothing changes
add_text_chunks(tmp, chunk, pages, headers, sentence, page) ==
    IF StrLen(chunk) > 1
    THEN [text_chunks |-> Append(tmp, [text_chunk |-> chunk, page_nums |-> pages,
                                       headers |-> headers, id |-> Len(tmp)]),
          curr_chunk |-> <<sentence>>,
          curr_page_nums |-> {page}]
    ELSE [text_chunks |-> tmp, curr_chunk |-> chunk, curr_page_nums |-> pages]

\* the new heading is set and the deeper entries stay (a slip)
UpdateHeadersKeepsDeeper(h, lvl, title) ==
    [k \in DOMAIN h \cup {lvl} |-> IF k = lvl THEN title ELSE h[k]]

\* lines 101-102: entries deeper than the new heading go, the new one is set
UpdateHeaders(h, lvl, title) ==
    [k \in {j \in DOMAIN h : j <= lvl - 1} \cup {lvl} |->
        IF k = lvl THEN title ELSE h[k]]

\* Python's seq[a:b]
PyIndex(i, n) == IF i < 0 THEN (IF i + n < 0 THEN 0 ELSE i + n)
                 ELSE (IF i > n THEN n ELSE i)
Slice(seq, a, b) ==
    LET lo == PyIndex(a, Len(seq))
        hi == PyIndex(b, Len(seq))
    IN IF lo < hi THEN SubSeq(seq, lo + 1, hi) ELSE <<>>

\* line 119
NumItersCeil(n) == (n + PageLimit - 1) \div PageLimit
NumIters(n) == n \div PageLimit + 1

RECURSIVE SectionLoop(_, _, _, _, _, _)
\* lines 130-141: the loop over j (here from 1), with i_prev and i_next
SectionLoop(j, num_iters, size, i_prev, i_next, acc) ==
    IF j > num_iters THEN acc
    ELSE LET section == [text_chunks |-> Slice(text_chunks, i_prev, i_next),
                         num_pages |-> num_pages \div num_iters,
                         num_chars |-> total_char_count \div num_iters,
                         section_num |-> j]
             nxt == i_next + size
         IN SectionLoop(j + 1, num_iters, size, i_next,
                        IF nxt >= Len(text_chunks) THEN -1 ELSE nxt,
                        Append(acc, section))

\* lines 118-152
Sections ==
    IF num_pages > PageLimit
    THEN LET num_iters == NumIters(num_pages)
             size == Len(text_chunks) \div num_iters
         IN SectionLoop(1, num_iters, size, 0, size, <<>>)
    ELSE <<[text_chunks |-> text_chunks, num_pages |-> num_pages,
            num_chars |-> total_char_count, section_num |-> "None"]>>

\* lines 153-163
ErrorSection ==
    [text_chunks |-> "None", num_pages |-> "None", num_chars |-> "None",
     section_num |-> "None", error |-> "e"]

InitSeg ==
    /\ SegIdle
    /\ file = Absent /\ committed = NoRecord /\ now = 0
    /\ StoreIdle
    /\ RunIdle
    /\ EmbedIdle
    /\ SelIdle
    /\ MailIdle
    /\ WorkerIdle

\* lines 67-83: the document opens and its first page is entered
SegOpen ==
    /\ spc = "idle"
    /\ max_chunk_size' \in ChunkSizes
    /\ num_pages' \in PageCounts
    /\ page_num' = 1
    /\ spc' = "lines"
    /\ UNCHANGED <<doc, curr_chunk, curr_page_nums, curr_headers, text_chunks,
                   total_char_count, text_sections>>
    /\ UNCHANGED notSeg

\* lines 71-75 and 153-163: the document cannot be opened or converted
SegError ==
    /\ spc = "idle"
    /\ max_chunk_size' \in ChunkSizes
    /\ text_sections' = <<ErrorSection>>
    /\ spc' = "returned"
    /\ UNCHANGED <<num_pages, page_num, doc, curr_chunk, curr_page_nums, curr_headers,
                   text_chunks, total_char_count>>
    /\ UNCHANGED notSeg

\* lines 90-97 and 108-115: one sentence of the page
SegSentence ==
    /\ spc = "lines"
    /\ Len(doc) < MaxItems
    /\ \E l \in SentenceLens :
         LET s == Len(doc) + 1 IN
          /\ doc' = Append(doc, [kind |-> "sentence", len |-> l, page |-> page_num])
          /\ total_char_count' = total_char_count + l + 1
          /\ IF Fits(curr_chunk, l)
             THEN /\ curr_chunk' = Append(curr_chunk, s)
                  /\ curr_page_nums' = curr_page_nums \cup {page_num}
                  /\ UNCHANGED text_chunks
             ELSE LET r == add_text_chunks(text_chunks, curr_chunk, curr_page_nums,
                                           curr_headers, s, page_num)
                  IN /\ text_chunks' = r.text_chunks
                     /\ curr_chunk' = r.curr_chunk
                     /\ curr_page_nums' = r.curr_page_nums
    /\ UNCHANGED <<spc, max_chunk_size, num_pages, page_num, curr_headers, text_sections>>
    /\ UNCHANGED notSeg

\* lines 85-103: a heading line
SegHeading ==
    /\ spc = "lines"
    /\ Len(doc) < MaxItems
    /\ \E lvl \in HeadingLevels :
          /\ doc' = Append(doc, [kind |-> "heading", level |-> lvl, page |-> page_num])
          /\ curr_headers' = UpdateHeaders(curr_headers, lvl, Len(doc) + 1)
          /\ total_char_count' = total_char_count + lvl + 2
    /\ UNCHANGED <<spc, max_chunk_size, num_pages, page_num, curr_chunk, curr_page_nums,
                   text_chunks, text_sections>>
    /\ UNCHANGED notSeg

\* lines 79-83: the next page with text on it (the pages between are empty)
SegNextPage ==
    /\ spc = "lines"
    /\ page_num < num_pages
    /\ page_num' \in {p \in {page_num + 1, num_pages} : p <= MaxTextPages \/ p = num_pages}
    /\ curr_page_nums' = {}
    /\ UNCHANGED <<spc, max_chunk_size, num_pages, doc, curr_chunk, curr_headers,
                   text_chunks, total_char_count, text_sections>>
    /\ UNCHANGED notSeg

\* lines 116-152: after the last page the sections are built and returned
SegReturn ==
    /\ spc = "lines"
    /\ page_num = num_pages
    /\ text_sections' = Sections
    /\ spc' = "returned"
    /\ UNCHANGED <<max_chunk_size, num_pages, page_num, doc, curr_chunk, curr_page_nums,
                   curr_headers, text_chunks, total_char_count>>
    /\ UNCHANGED notSeg

NextSeg == SegOpen \/ SegError \/ SegSentence \/ SegHeading \/ SegNextPage \/ SegReturn

SpecSeg == InitSeg /\ [][NextSeg]_vars

(***************************************************************************)
(* SpecSelect: find_top_relevant_texts for one variable, as called by      *)
(* extract_policy_doc_info                                                 *)
(*                                                                         *)
(* A chunk is known by its index in the pool.  Similarities are in tenths, *)
(* lengths and the character budget in units of text.                      *)
(***************************************************************************)
Similarities == {3, 7, 9}
ChunkChars == {1, 2}
CharBudgets == {2, 3}
PoolChunks == [has_name : BOOLEAN, similarity : Similarities, chars : ChunkChars]
Pools == UNION {[1..n -> PoolChunks] : n \in 0..MaxPool}

RECURSIVE SumChars(_)
SumChars(cs) == IF cs = <<>> THEN 0 ELSE Head(cs).chars + SumChars(Tail(cs))

\* line 126: var_name in pdf_text_chunks[i]
HoldsNameNever(c) == FALSE
HoldsName(c) == c.has_name

\* sorted(similarity_scores, key=lambda x: x[1], reverse=True): the position
\* (from 0) of pair k; the sort is stable, so equal scores keep their order
SortedPos(scores, k) ==
    Cardinality({j \in DOMAIN scores :
                    \/ scores[j][2] > scores[k][2]
                    \/ (scores[j][2] = scores[k][2] /\ j < k)})

\* the sorted list
Sorted(scores) ==
    [p \in 1..Len(scores) |->
        scores[CHOOSE k \in DOMAIN scores : SortedPos(scores, k) = p - 1]]

\* lines 133-135: sorted(...)[:num_excerpts]
TopSliceAboveOnly(scores, n) ==
    SelectSeq(SubSeq(Sorted(scores), 1, IF n < Len(scores) THEN n ELSE Len(scores)),
              LAMBDA x : x[2] > 7)
TopSlice(scores, n) ==
    SubSeq(Sorted(scores), 1, IF n < Len(scores) THEN n ELSE Len(scores))

\* lines 137-141: the chunks that hold the name, then the top ones that do not
Selected(rel, top, idx) ==
    rel \o SelectSeq([k \in DOMAIN top |-> top[k][1]], LAMBDA i : i \notin idx)

InitSelect ==
    /\ SelIdle
    /\ file = Absent /\ committed = NoRecord /\ now = 0
    /\ StoreIdle
    /\ RunIdle
    /\ EmbedIdle
    /\ SegIdle
    /\ MailIdle
    /\ WorkerIdle

\* main.py, lines 96-122: the chunks of the section, the budget and the
\* number of excerpts are the caller's
SelInputs ==
    /\ selpc = "idle"
    /\ pool' \in Pools
    /\ num_excerpts' \in 1..MaxExcerpts
    /\ char_budget' \in CharBudgets
    /\ selpc' = "caller"
    /\ UNCHANGED <<sel_i, indeces, relevant_texts, similarity_scores, sel_result>>
    /\ UNCHANGED notSelect

\* main.py, lines 100 and 132-133: a text shorter than the budget is passed
\* to the query whole
SelFullText ==
    /\ selpc = "caller"
    /\ SumChars(pool) < char_budget
    /\ sel_result' = [i \in DOMAIN pool |-> i]
    /\ selpc' = "full_text"
    /\ UNCHANGED <<pool, num_excerpts, char_budget, sel_i, indeces, relevant_texts,
                   similarity_scores>>
    /\ UNCHANGED notSelect

\* main.py, lines 123-125, and find_top_relevant_texts, lines 121-124
SelCall ==
    /\ selpc = "caller"
    /\ ~(SumChars(pool) < char_budget)
    /\ sel_i' = 1
    /\ selpc' = "scan"
    /\ UNCHANGED <<pool, num_excerpts, char_budget, indeces, relevant_texts,
                   similarity_scores, sel_result>>
    /\ UNCHANGED notSelect

\* lines 125-131: one turn of the loop over the chunks
SelScan ==
    /\ selpc = "scan"
    /\ sel_i <= Len(pool)
    /\ IF HoldsName(pool[sel_i])
       THEN /\ indeces' = indeces \cup {sel_i}
            /\ relevant_texts' = Append(relevant_texts, sel_i)
       ELSE UNCHANGED <<indeces, relevant_texts>>
    /\ similarity_scores' = Append(similarity_scores, <<sel_i, pool[sel_i].similarity>>)
    /\ sel_i' = sel_i + 1
    /\ UNCHANGED <<selpc, pool, num_excerpts, char_budget, sel_result>>
    /\ UNCHANGED notSelect

\* lines 132-141: the sort, the slice and the returned list
SelReturn ==
    /\ selpc = "scan"
    /\ sel_i > Len(pool)
    /\ sel_result' = Selected(relevant_texts, TopSlice(similarity_scores, num_excerpts),
                              indeces)
    /\ selpc' = "returned"
    /\ UNCHANGED <<pool, num_excerpts, char_budget, sel_i, indeces, relevant_texts,
                   similarity_scores>>
    /\ UNCHANGED notSelect

NextSelect == SelInputs \/ SelFullText \/ SelCall \/ SelScan \/ SelReturn

SpecSelect == InitSelect /\ [][NextSelect]_vars

(***************************************************************************)
(* SpecMail: email_results for one artifact                                *)
(*                                                                         *)
(* send_single_email returns success, returns failure (the mail service    *)
(* raised inside its try block), or raises itself (get_secret or the       *)
(* encoding, which are outside the try block).  split_workbook_by_sheets   *)
(* is a collaborator: it returns some number of parts or raises.           *)
(***************************************************************************)
ArtifactSizes == {1, 18, 19, 40}
SendOutcomes == {"sent", "failed", "raise"}

\* check_file_size, lines 532-538: the encoded size is estimated as 1.33
\* times the size and compared with the limit
is_too_large(mb) == mb * 133 > SizeLimitMB * 100

\* a call of send_single_email: what is the number of the part sent, or
\* Unsplit for the artifact as it is
Unsplit == 0
Call(what, outcome) == [what |-> what, outcome |-> outcome]

\* lines 617-619: success, error = send_single_email(...); if success:
SucceededOrFailed(r) == r # "raise"
Succeeded(r) == r = "sent"

InitMail ==
    /\ MailIdle
    /\ file = Absent /\ committed = NoRecord /\ now = 0
    /\ StoreIdle
    /\ RunIdle
    /\ EmbedIdle
    /\ SegIdle
    /\ SelIdle
    /\ WorkerIdle

\* lines 573-585 and 590-594: the size check
MailCheckSize ==
    /\ mailpc = "idle"
    /\ \E mb \in ArtifactSizes :
          /\ size_mb' = mb
          /\ mailpc' = IF is_too_large(mb) THEN "split" ELSE "send_whole"
    /\ UNCHANGED <<total_parts, part_num, successful_parts, failed_parts, calls>>
    /\ UNCHANGED notMail

\* lines 583-590: the artifact is sent as it is, and email_results returns
MailSendWhole ==
    /\ mailpc = "send_whole"
    /\ \E r \in SendOutcomes :
          /\ calls' = Append(calls, Call(Unsplit, r))
          /\ mailpc' = IF r = "raise" THEN "raised" ELSE "returned"
    /\ UNCHANGED <<size_mb, total_parts, part_num, successful_parts, failed_parts>>
    /\ UNCHANGED notMail

\* lines 596-605: split_workbook_by_sheets returns the parts or raises
MailSplit ==
    /\ mailpc = "split"
    /\ \/ \E n \in 0..MaxParts :
             /\ total_parts' = n
             /\ part_num' = 1
             /\ mailpc' = "parts"
       \/ /\ mailpc' = "fallback"
          /\ UNCHANGED <<total_parts, part_num>>
    /\ UNCHANGED <<size_mb, successful_parts, failed_parts, calls>>
    /\ UNCHANGED notMail

\* lines 607-626: one part is sent; the part's own size check only prints
MailSendPart ==
    /\ mailpc = "parts"
    /\ part_num <= total_parts
    /\ \E r \in SendOutcomes :
          /\ calls' = Append(calls, Call(part_num, r))
          /\ successful_parts' = IF Succeeded(r) THEN Append(successful_parts, part_num)
                                 ELSE successful_parts
          /\ failed_parts' = IF r = "failed" THEN Append(failed_parts, part_num)
                             ELSE failed_parts
          /\ IF r = "raise"
             THEN mailpc' = "fallback" /\ UNCHANGED part_num
             ELSE part_num' = part_num + 1 /\ UNCHANGED mailpc
    /\ UNCHANGED <<size_mb, total_parts>>
    /\ UNCHANGED notMail

\* lines 628-641: the loop is over; the summary is printed and email_results
\* returns
MailSummary ==
    /\ mailpc = "parts"
    /\ part_num > total_parts
    /\ mailpc' = "returned"
    /\ UNCHANGED <<size_mb, total_parts, part_num, successful_parts, failed_parts, calls>>
    /\ UNCHANGED notMail

\* lines 643-656: the handler sends the original artifact
MailFallback ==
    /\ mailpc = "fallback"
    /\ \E r \in SendOutcomes :
          /\ calls' = Append(calls, Call(Unsplit, r))
          /\ mailpc' = IF r = "raise" THEN "raised" ELSE "returned"
    /\ UNCHANGED <<size_mb, total_parts, part_num, successful_parts, failed_parts>>
    /\ UNCHANGED notMail

NextMail ==
    \/ MailCheckSize \/ MailSendWhole \/ MailSplit \/ MailSendPart \/ MailSummary
    \/ MailFallback

SpecMail == InitMail /\ [][NextMail]_vars

(***************************************************************************)
(* SpecWorker: long_process for one job directory, with its heartbeat      *)
(* thread and the signal handler it installs                               *)
(*                                                                         *)
(* Python runs a signal handler in the main thread between two bytecodes,  *)
(* so _graceful runs between two steps of long_process.  main.main is a    *)
(* collaborator here: it returns a triple with or without an error, or     *)
(* something that does not unpack into three names (the main under src/    *)
(* returns a dict of five keys), or it raises.  A file write is one step   *)
(* that succeeds or fails.                                                 *)
(***************************************************************************)
MainOutcomes == {"ok", "err", "bad_shape", "raise"}

\* the outcomes of a write to the job directory: done, or failed
WriteOutcomes == IF wfaults < MaxFaults THEN {TRUE, FALSE} ELSE {TRUE}

StatusCall(state, by) == [state |-> state, by |-> by]

\* write_status, lines 16-37: status.txt is rewritten, best effort (a failed
\* write is dropped); the message and status.json follow it
write_status(state, by, ok) ==
    /\ status_txt' = IF ok THEN state ELSE status_txt
    /\ status_calls' = Append(status_calls, StatusCall(state, by))

Injected(ok) == IF ok THEN wfaults ELSE wfaults + 1

\* the state written on an error path (a slip: the state of line 158)
ErrorStateRunning == "running"
\* lines 172, 192 and 236: the state long_process writes on an error path
ErrorState == "error"

InitWorker ==
    /\ WorkerIdle
    /\ file = Absent /\ committed = NoRecord /\ now = 0
    /\ StoreIdle
    /\ RunIdle
    /\ EmbedIdle
    /\ SegIdle
    /\ SelIdle
    /\ MailIdle

\* lines 112-115: mkdir, write_status("running", "Starting..."),
\* _noop_streamlit; mkdir can raise, and then nothing has been written
WkStart ==
    /\ wkpc = "idle"
    /\ \/ \E ok \in WriteOutcomes :
             /\ write_status("running", "long_process", ok)
             /\ wfaults' = Injected(ok)
             /\ wkpc' = "install"
       \/ /\ wfaults < MaxFaults
          /\ wfaults' = wfaults + 1
          /\ wkpc' = "raised"
          /\ UNCHANGED <<status_txt, status_calls>>
    /\ UNCHANGED <<rc, main_out, error_txt, result_xlsx, signals, hbpc, hb_stop,
                   hb_hist, late, error_tried>>
    /\ UNCHANGED notWorker

\* lines 117-127: the handlers for SIGTERM and SIGINT are installed (the call
\* is made in the main thread, lines 244-248), the heartbeat is started
WkInstall ==
    /\ wkpc = "install"
    /\ hbpc' = "check"
    /\ wkpc' = "load"
    /\ UNCHANGED <<rc, main_out, status_txt, error_txt, result_xlsx, signals, hb_stop,
                   hb_hist, late, status_calls, error_tried, wfaults>>
    /\ UNCHANGED notWorker

\* _graceful, lines 118-119, on a signal delivered while long_process runs:
\* it writes the status and returns to the interrupted code
WkSignal ==
    /\ wkpc \notin {"idle", "install", "returned", "raised"}
    /\ signals < MaxSignals
    /\ signals' = signals + 1
    /\ \E ok \in WriteOutcomes :
          /\ write_status("error", "_graceful", ok)
          /\ wfaults' = Injected(ok)
    /\ UNCHANGED <<wkpc, rc, main_out, error_txt, result_xlsx, hbpc, hb_stop, hb_hist,
                   late, error_tried>>
    /\ UNCHANGED notWorker

\* lines 129-157: import main, the display_output patch, analyzer.pkl; any
\* exception goes to the handler at line 209
WkLoad ==
    /\ wkpc = "load"
    /\ \/ /\ wkpc' = "run_status"
          /\ UNCHANGED wfaults
       \/ /\ wfaults < MaxFaults
          /\ wfaults' = wfaults + 1
          /\ wkpc' = "outer"
    /\ UNCHANGED <<rc, main_out, status_txt, error_txt, result_xlsx, signals, hbpc,
                   hb_stop, hb_hist, late, status_calls, error_tried>>
    /\ UNCHANGED notWorker

\* line 158: write_status("running", "Processing...")
WkRunStatus ==
    /\ wkpc = "run_status"
    /\ \E ok \in WriteOutcomes :
          /\ write_status("running", "long_process", ok)
          /\ wfaults' = Injected(ok)
    /\ wkpc' = "main"
    /\ UNCHANGED <<rc, main_out, error_txt, result_xlsx, signals, hbpc, hb_stop,
                   hb_hist, late, error_tried>>
    /\ UNCHANGED notWorker

\* line 159: num_pages, output_doc, err = app_main.main(...); main may have
\* called the patched display_output (lines 133-138), which writes
\* result.xlsx best effort
WkMain ==
    /\ wkpc = "main"
    /\ \E o \in MainOutcomes :
          /\ main_out' = o
          /\ wkpc' = CASE o = "ok" -> "save"
                       [] o = "err" -> "err_file"
                       [] OTHER -> "outer"
    /\ result_xlsx' \in {result_xlsx, "written"}
    /\ UNCHANGED <<rc, status_txt, error_txt, signals, hbpc, hb_stop, hb_hist, late,
                   status_calls, error_tried, wfaults>>
    /\ UNCHANGED notWorker

\* line 171 and line 191: error.txt is written outside any inner try, so a
\* failure goes to the handler at line 209
WkErrorFile ==
    /\ wkpc \in {"err_file", "save_failed_file"}
    /\ error_tried' = TRUE
    /\ \E ok \in WriteOutcomes :
          /\ wfaults' = Injected(ok)
          /\ error_txt' = IF ok THEN "written" ELSE error_txt
          /\ wkpc' = IF ~ok THEN "outer"
                     ELSE IF wkpc = "err_file" THEN "err_status"
                     ELSE "save_failed_status"
    /\ UNCHANGED <<rc, main_out, status_txt, result_xlsx, signals, hbpc, hb_stop,
                   hb_hist, late, status_calls>>
    /\ UNCHANGED notWorker

\* lines 172-174: write_status("error", str(err)), log_safely, return 1
WkErrorStatus ==
    /\ wkpc = "err_status"
    /\ \E ok \in WriteOutcomes :
          /\ write_status(ErrorState, "long_process", ok)
          /\ wfaults' = Injected(ok)
    /\ rc' = 1
    /\ wkpc' = "finally"
    /\ UNCHANGED <<main_out, error_txt, result_xlsx, signals, hbpc, hb_stop, hb_hist,
                   late, error_tried>>
    /\ UNCHANGED notWorker

\* lines 177-182: the workbook is saved to result.xlsx, or that raises
WkSave ==
    /\ wkpc = "save"
    /\ \E ok \in WriteOutcomes :
          /\ wfaults' = Injected(ok)
          /\ result_xlsx' = IF ok THEN "written" ELSE result_xlsx
          /\ wkpc' = IF ok THEN "done_status" ELSE "save_failed_file"
    /\ UNCHANGED <<rc, main_out, status_txt, error_txt, signals, hbpc, hb_stop, hb_hist,
                   late, status_calls, error_tried>>
    /\ UNCHANGED notWorker

\* lines 192-194: write_status("error", "Failed to save result.xlsx"),
\* log_safely, return 1
WkSaveFailedStatus ==
    /\ wkpc = "save_failed_status"
    /\ \E ok \in WriteOutcomes :
          /\ write_status(ErrorState, "long_process", ok)
          /\ wfaults' = Injected(ok)
    /\ rc' = 1
    /\ wkpc' = "finally"
    /\ UNCHANGED <<main_out, error_txt, result_xlsx, signals, hbpc, hb_stop, hb_hist,
                   late, error_tried>>
    /\ UNCHANGED notWorker

\* line 205: write_status("done", "Finished. Pages: ...")
WkDoneStatus ==
    /\ wkpc = "done_status"
    /\ \E ok \in WriteOutcomes :
          /\ write_status("done", "long_process", ok)
          /\ wfaults' = Injected(ok)
    /\ wkpc' = "done_log"
    /\ UNCHANGED <<rc, main_out, error_txt, result_xlsx, signals, hbpc, hb_stop,
                   hb_hist, late, error_tried>>
    /\ UNCHANGED notWorker

\* lines 206-207: log_safely, return 0; log_safely absorbs every Exception,
\* anything else main.log raises goes to the handler at line 209
WkDoneLog ==
    /\ wkpc = "done_log"
    /\ \/ /\ rc' = 0
          /\ wkpc' = "finally"
          /\ UNCHANGED wfaults
       \/ /\ wfaults < MaxFaults
          /\ wfaults' = wfaults + 1
          /\ wkpc' = "outer"
          /\ UNCHANGED rc
    /\ UNCHANGED <<main_out, status_txt, error_txt, result_xlsx, signals, hbpc, hb_stop,
                   hb_hist, late, status_calls, error_tried>>
    /\ UNCHANGED notWorker

\* lines 209-215: except BaseException: error.txt is written, best effort
WkOuterFile ==
    /\ wkpc = "outer"
    /\ error_tried' = TRUE
    /\ \E ok \in WriteOutcomes :
          /\ wfaults' = Injected(ok)
          /\ error_txt' = IF ok THEN "written" ELSE error_txt
    /\ wkpc' = "outer_status"
    /\ UNCHANGED <<rc, main_out, status_txt, result_xlsx, signals, hbpc, hb_stop,
                   hb_hist, late, status_calls>>
    /\ UNCHANGED notWorker

\* lines 217-237: the log entry (every Exception absorbed), then
\* write_status("error", str(e)) and return 1
WkOuterStatus ==
    /\ wkpc = "outer_status"
    /\ \E ok \in WriteOutcomes :
          /\ write_status(ErrorState, "long_process", ok)
          /\ wfaults' = Injected(ok)
    /\ rc' = 1
    /\ wkpc' = "finally"
    /\ UNCHANGED <<main_out, error_txt, result_xlsx, signals, hbpc, hb_stop, hb_hist,
                   late, error_tried>>
    /\ UNCHANGED notWorker

\* lines 238-239 and Heartbeat.stop, lines 97-98: self._stop.set()
WkFinally ==
    /\ wkpc = "finally"
    /\ hb_stop' = TRUE
    /\ wkpc' = "join"
    /\ UNCHANGED <<rc, main_out, status_txt, error_txt, result_xlsx, signals, hbpc,
                   hb_hist, late, status_calls, error_tried, wfaults>>
    /\ UNCHANGED notWorker

\* Heartbeat.stop, line 99: self._t.join(timeout=2) returns when the thread
\* has ended, or after two seconds with the thread still inside a write; then
\* long_process returns
WkJoin ==
    /\ wkpc = "join"
    /\ hbpc \in {"ended", "write"}
    /\ wkpc' = "returned"
    /\ UNCHANGED <<rc, main_out, status_txt, error_txt, result_xlsx, signals, hbpc,
                   hb_stop, hb_hist, late, status_calls, error_tried, wfaults>>
    /\ UNCHANGED notWorker

\* Heartbeat._loop, line 87: while not self._stop.is_set()
HbCheck ==
    /\ hbpc = "check"
    /\ hbpc' = IF hb_stop THEN "ended" ELSE "write"
    /\ UNCHANGED <<wkpc, rc, main_out, status_txt, error_txt, result_xlsx, signals,
                   hb_stop, hb_hist, late, status_calls, error_tried, wfaults>>
    /\ UNCHANGED notWorker

\* what the loop does after a write that raised (a slip: it ends)
AfterFailedWriteEnds == "ended"
\* lines 90-92: except Exception: pass, then self._stop.wait(self.interval)
AfterFailedWrite == "wait"

\* lines 88-92: heartbeat.txt is rewritten, or the write raises
HbWrite ==
    /\ hbpc = "write"
    /\ \E ok \in BOOLEAN :
          /\ hb_hist' = IF Len(hb_hist) < MaxBeats
                        THEN Append(hb_hist, IF ok THEN "written" ELSE "failed")
                        ELSE hb_hist
          /\ late' = IF ok /\ wkpc = "returned" THEN late + 1 ELSE late
          /\ hbpc' = IF ok THEN "wait" ELSE AfterFailedWrite
    /\ UNCHANGED <<wkpc, rc, main_out, status_txt, error_txt, result_xlsx, signals,
                   hb_stop, status_calls, error_tried, wfaults>>
    /\ UNCHANGED notWorker

\* line 92: self._stop.wait(self.interval) returns when the interval is over
\* or as soon as the event is set
HbWake ==
    /\ hbpc = "wait"
    /\ hbpc' = "check"
    /\ UNCHANGED <<wkpc, rc, main_out, status_txt, error_txt, result_xlsx, signals,
                   hb_stop, hb_hist, late, status_calls, error_tried, wfaults>>
    /\ UNCHANGED notWorker

HbNext == HbCheck \/ HbWrite \/ HbWake

NextWorker ==
    \/ WkStart \/ WkInstall \/ WkSignal \/ WkLoad \/ WkRunStatus \/ WkMain
    \/ WkErrorFile \/ WkErrorStatus \/ WkSave \/ WkSaveFailedStatus
    \/ WkDoneStatus \/ WkDoneLog \/ WkOuterFile \/ WkOuterStatus
    \/ WkFinally \/ WkJoin
    \/ HbNext

SpecWorker == InitWorker /\ [][NextWorker]_vars

\* the heartbeat thread is scheduled as long as it can take a step
SpecWorkerLive == SpecWorker /\ WF_vars(HbNext)

(***************************************************************************)
(* Claims about the JobStore, checked under Spec                           *)
(***************************************************************************)
Terminal == {COMPLETED, FAILED}
Rank(s) == CASE s = "none" -> 0 [] s = PENDING -> 1 [] s = RUNNING -> 2 [] OTHER -> 3
StatusMove(a, b) == IF a \in Terminal THEN b = a ELSE Rank(a) <= Rank(b)

\* C1: the persisted status only moves forward along Pending -> Running ->
\* {Completed, Failed}: a complete record never follows a complete record with a
\* later status, and a Completed or Failed record is never followed by a record
\* with another status, whatever JobStore calls are made.
C1_StatusMonotonic == [][StatusMove(committed.status, committed'.status)]_vars

Saves(t) == pc[t] = "save_write" /\ pc'[t] = "idle"

\* C2: the record create_job writes is Pending; the record mark_running writes
\* is Running, mark_completed's is Completed, mark_failed's is Failed; and the
\* record an update_progress call writes has the status of the last complete
\* record before it, for every field set and every interleaving of its unlocked
\* read with the other calls.
C2_Lifecycle ==
    [][\A t \in Mutators :
          Saves(t) =>
             /\ file'.kind = "json"
             /\ CASE op[t].name = "create_job" -> file'.data.status = PENDING
                  [] op[t].name = "mark_running" -> file'.data.status = RUNNING
                  [] op[t].name = "mark_completed" -> file'.data.status = COMPLETED
                  [] op[t].name = "mark_failed" -> file'.data.status = FAILED
                  [] OTHER -> file'.data.status = committed.status]_vars

\* C2's case: an update_progress call completed after a terminal mark, and
\* the record is still terminal
C2_Witness ==
    /\ file.kind = "json"
    /\ file.data.status \in Terminal
    /\ \E i, j \in DOMAIN log :
          /\ i < j
          /\ log[i] \in {"mark_completed", "mark_failed"}
          /\ log[j] = "update_progress"
          /\ \A k \in DOMAIN log : k > i => log[k] = "update_progress"

\* C4: once the job's record has been written, a poller's get_job yields a
\* complete record whatever the mutating calls are doing: it never fails to
\* decode an empty or partly written file.
C4_PollSeesWholeRecord ==
    [][(committed # NoRecord /\ seen.kind # "error") => seen'.kind # "error"]_vars

\* C5: when no call is in progress, the record holds the effect of every
\* completed update_progress call: each field one of them set has the value it
\* was given (no call's field is lost to another call's stale copy).
C5_NoLostUpdate ==
    (file.kind = "json" /\ \A t \in Mutators : pc[t] = "idle")
        => \A f \in effects : file.data.progress[f] = NewVal(f)

(***************************************************************************)
(* Claims about one run of run_job_async(job_id, main, ...), checked       *)
(* under SpecRun                                                           *)
(***************************************************************************)
Status == IF file.kind = "json" THEN file.data.status ELSE "unreadable"
ThreadOver == wpc \in {"ended", "dead"}
EventsOf(name) == {i \in DOMAIN trace : trace[i][1] = name}
SegFailed == {trace[i][2] : i \in EventsOf("segment_error")}
EmbFailed == {trace[i][2] : i \in EventsOf("embed_failed")}
Segmentations == EventsOf("segment") \cup EventsOf("segment_error")
HasResults(d) == \E i \in DOMAIN d : d[i][1] = "results"

\* C3: a job that reached Running is not left in Running: once the worker
\* thread is over (it returned, or an exception ended it; the process is
\* still alive) the record says Completed or Failed.
C3_NoStuckRunning ==
    (ThreadOver /\ mpc # "m_none") => Status \in Terminal

\* C6: the job is marked Running before the function starts, and once the
\* thread is over exactly one terminal mark has been made: mark_completed
\* alone if the function returned, mark_failed alone if it raised.
C6_ExactlyOneTerminalMark ==
    /\ (wpc = "target") => committed.status = RUNNING
    /\ (ThreadOver /\ fn = "returned") => marks = <<"mark_completed">>
    /\ (ThreadOver /\ fn = "raised") => marks = <<"mark_failed">>

\* C7: when the extraction loop raised after result rows had been written to
\* the output document and the job has been marked Failed, a document
\* holding those rows has been saved or delivered.
C7_PartialOutputPersisted ==
    (fn = "raised" /\ HasResults(output_doc) /\ Status = FAILED)
        => \E i \in DOMAIN delivered : HasResults(delivered[i])

\* C8: a document whose segmentation failed is in failed_pdfs, has no
\* embedding or LLM call made for it, and is followed by the segmentation of
\* the next document; when main returns every document has been segmented,
\* in order; and a run in which nothing else failed ends Completed with the
\* document listed in result.failed_pdfs.
C8_SegmentationFailureIsLocal ==
    \A k \in SegFailed :
        /\ \E i \in DOMAIN failed_pdfs : failed_pdfs[i] = k
        /\ \A i \in DOMAIN trace : trace[i][2] = k => trace[i][1] = "segment_error"
        /\ \A i \in EventsOf("segment_error") :
              (trace[i][2] = k /\ i < Len(trace))
                  => (i + 1 \in Segmentations /\ trace[i + 1][2] = k + 1)
        /\ fn = "returned" =>
              /\ Cardinality(Segmentations) = npdfs
              /\ \A i, j \in Segmentations : i < j => trace[i][2] < trace[j][2]
        /\ (wpc = "ended" /\ faults = 0) =>
              /\ Status = COMPLETED
              /\ file.data.result.kind = "result"
              /\ \E i \in DOMAIN file.data.result.failed_pdfs :
                    file.data.result.failed_pdfs[i] = k

\* C8's case: the first of two documents failed segmentation, the second was
\* queried, and the job ended Completed
C8_Witness ==
    /\ wpc = "ended" /\ faults = 0 /\ npdfs = 2
    /\ 1 \in SegFailed
    /\ \E i \in EventsOf("query") : trace[i][2] = 2
    /\ Status = COMPLETED
    /\ file.data.result.failed_pdfs = <<1>>

C22_DeliveryFailureRecorded ==
    (wpc = "ended" /\ fn = "returned" /\ delivered = <<>> /\ Status # "unreadable") =>
        /\ Status = COMPLETED
        /\ file.data.result # ResultSummary(npdfs, failed_pdfs)

(***************************************************************************)
(* Claims about generate_all_embeddings, checked under SpecEmbed           *)
(***************************************************************************)
\* C10: when the request for a batch failed, every item of that batch that
\* the service accepts has then been requested on its own and has its
\* embedding in what the call returns.
C10_FailedBatchRetriedPerItem ==
    (epc = "raised" /\ eres.at = "request") =>
        LET j == Len(requests)
            fb == requests[j]
        IN \A k \in DOMAIN fb :
              fb[k] \notin bad =>
                  /\ \E m \in DOMAIN requests : m > j /\ requests[m] = <<fb[k]>>
                  /\ eres.kind = "ok"
                  /\ \E e \in DOMAIN eres.embeddings :
                        eres.embeddings[e] = Embedding(chunks[fb[k]])

(***************************************************************************)
(* Claims about the segmenter, checked under SpecSeg                       *)
(***************************************************************************)
RECURSIVE Flatten(_)
Flatten(seqs) == IF seqs = <<>> THEN <<>> ELSE Head(seqs) \o Flatten(Tail(seqs))
Range(seq) == {seq[i] : i \in DOMAIN seq}
SegDone == spc = "returned" /\ text_sections # <<ErrorSection>>
SectionChunks == Flatten([j \in DOMAIN text_sections |-> text_sections[j].text_chunks])
ChunkTexts(cs) == Flatten([i \in DOMAIN cs |-> cs[i].text_chunk])
SentenceSeq == SelectSeq([i \in DOMAIN doc |-> i], LAMBDA i : doc[i].kind = "sentence")

\* C11: when the segmenter has returned, the texts of all chunks of all
\* sections, concatenated in section and chunk order, are exactly the
\* document's sentences in source order: none dropped, none duplicated.
C11_Completeness ==
    SegDone => ChunkTexts(SectionChunks) = SentenceSeq

\* C12: every chunk's page_nums is non-empty, lies within 1..num_pages and is
\* exactly the set of pages of the sentences in the chunk's text.
C12_PageNumbersExact ==
    \A i \in DOMAIN text_chunks :
        LET c == text_chunks[i] IN
        /\ c.page_nums # {}
        /\ c.page_nums \subseteq 1..num_pages
        /\ c.page_nums = {doc[s].page : s \in Range(c.text_chunk)}

\* C13: the text of every chunk is at most max_chunk_size characters long.
C13_SizeBounded ==
    \A i \in DOMAIN text_chunks :
        StrippedLen(text_chunks[i].text_chunk) <= max_chunk_size

\* C14: for a document of more than 250 pages the chunk lists of the
\* sections, concatenated in section order, are the full chunk list.
C14_SectionsPartition ==
    (SegDone /\ num_pages > PageLimit) => SectionChunks = text_chunks

\* C15 as stated: a document of more than 250 pages comes back in
\* ceil(num_pages / 250) sections, a shorter one as one section whose
\* section number is None.
C15_SectionCountCeil ==
    SegDone =>
        IF num_pages > PageLimit
        THEN Len(text_sections) = (num_pages + PageLimit - 1) \div PageLimit
        ELSE Len(text_sections) = 1 /\ text_sections[1].section_num = "None"

\* C15, amended: a document of more than 250 pages comes back in
\* floor(num_pages / 250) + 1 sections numbered 1, 2, ... (three sections for
\* 500 pages), a shorter one as one section whose section number is None.
C15_SectionCount ==
    SegDone =>
        IF num_pages > PageLimit
        THEN /\ Len(text_sections) = num_pages \div PageLimit + 1
             /\ \A j \in DOMAIN text_sections : text_sections[j].section_num = j
        ELSE Len(text_sections) = 1 /\ text_sections[1].section_num = "None"

\* C15's case: a document of 500 pages has come back in three sections
C15_Witness ==
    /\ SegDone
    /\ num_pages = 2 * PageLimit
    /\ Len(text_sections) = 3
    /\ Len(text_chunks) > 0

(***************************************************************************)
(* Claims about find_top_relevant_texts, checked under SpecSelect          *)
(***************************************************************************)
SelDone == selpc = "returned"
InResult(i) == \E k \in DOMAIN sel_result : sel_result[k] = i
ByVariableName == {i \in DOMAIN pool : pool[i].has_name}
\* the chunks in the result that do not hold the variable's name
BySimilarity == {i \in DOMAIN pool : InResult(i) /\ ~pool[i].has_name}

\* C16: when the pool holds at least num_excerpts chunks, the result holds
\* at least num_excerpts different chunks, whatever the similarities are and
\* however many chunks hold the variable's name.
C16_MinimumYield ==
    (SelDone /\ Len(pool) >= num_excerpts) =>
        /\ Len(sel_result) >= num_excerpts
        /\ Cardinality(Range(sel_result)) >= num_excerpts

\* C16's case: no chunk holds the name, no similarity is above 0.7, and the
\* result still has num_excerpts chunks out of a larger pool
C16_Witness ==
    /\ SelDone
    /\ num_excerpts >= 2 /\ Len(pool) > num_excerpts
    /\ ByVariableName = {}
    /\ \A i \in DOMAIN pool : pool[i].similarity <= 7
    /\ Len(sel_result) = num_excerpts

\* C17: every chunk whose text holds the variable's name is in the result.
C17_AnchorInclusion ==
    SelDone => \A i \in ByVariableName : InResult(i)

\* C17's case: a chunk holding the name has the lowest similarity of a pool
\* larger than num_excerpts, and is in the result
C17_Witness ==
    /\ SelDone
    /\ Len(pool) > num_excerpts
    /\ \E i \in ByVariableName :
          /\ \A j \in DOMAIN pool \ {i} : pool[j].similarity > pool[i].similarity
          /\ InResult(i)

\* C18: when the result holds more chunks than num_excerpts (so none of them
\* is needed to reach the minimum), every chunk in it that does not hold the
\* variable's name has a similarity above 0.7, and those chunks together are
\* within char_budget.
C18_SimilarityInclusion ==
    (SelDone /\ Len(sel_result) > num_excerpts) =>
        /\ \A i \in BySimilarity : pool[i].similarity > 7
        /\ SumChars([k \in 1..Len(sel_result) |-> pool[sel_result[k]]])
             - SumChars([k \in 1..Len(relevant_texts) |-> pool[relevant_texts[k]]])
             <= char_budget

\* C19: once a call for the document has returned, every later call for it
\* issues no embedding request and returns exactly the chunks and embeddings
\* that first call stored, whatever chunk list it is given.
C19_WarmCacheIdempotent ==
    (ecall = "again" /\ stored.kind = "cached") =>
        /\ requests = <<>>
        /\ epc # "raised"
        /\ epc = "returned" =>
              /\ eres.kind = "ok"
              /\ eres.embeddings = stored.embeddings
              /\ eres.text_chunks = stored.text_chunks

\* C19's case: the later call was given another chunk list than the first
\* and has returned the first call's data
C19_Witness ==
    /\ ecall = "again" /\ epc = "returned"
    /\ stored.kind = "cached" /\ Len(stored.text_chunks) > 0
    /\ chunks # stored.text_chunks
    /\ eres.text_chunks = stored.text_chunks

(***************************************************************************)
(* Claims about email_results, checked under SpecMail                      *)
(***************************************************************************)
PartCalls == SelectSeq(calls, LAMBDA c : c.what # Unsplit)
SentCalls == SelectSeq(PartCalls, LAMBDA c : c.outcome = "sent")

\* C20: an artifact within the limit is sent by exactly one call with the
\* unsplit artifact and no split; for a larger one the calls for the parts
\* are parts 1, 2, ... in order, one call each, a part whose send returned
\* failure is followed by the next part, and when the loop has ended every
\* part 1..n has been sent once, the parts counted successful are the calls
\* that returned success, and successful + failed = n.
C20_OneSendPerPart ==
    /\ (mailpc \in {"returned", "raised"} /\ ~is_too_large(size_mb)) =>
          /\ Len(calls) = 1 /\ calls[1].what = Unsplit
          /\ total_parts = 0 /\ part_num = 0
    /\ \A k \in DOMAIN PartCalls : PartCalls[k].what = k
    /\ \A k \in DOMAIN calls :
          (calls[k].what # Unsplit /\ calls[k].outcome = "failed"
              /\ calls[k].what < total_parts /\ mailpc \in {"returned", "raised"})
             => (k < Len(calls) /\ calls[k + 1].what = calls[k].what + 1)
    /\ (mailpc = "returned" /\ is_too_large(size_mb) /\ part_num > total_parts) =>
          /\ calls = PartCalls
          /\ Len(calls) = total_parts
          /\ Len(successful_parts) = Len(SentCalls)
          /\ \A k \in DOMAIN SentCalls : successful_parts[k] = SentCalls[k].what
          /\ Len(successful_parts) + Len(failed_parts) = total_parts

\* C20's case: an artifact over the limit was split into three parts, the
\* first send failed, the later parts were still sent, and the call returned
C20_Witness ==
    /\ mailpc = "returned" /\ is_too_large(size_mb)
    /\ total_parts = 3 /\ Len(calls) = 3
    /\ calls[1].outcome = "failed" /\ calls[3].outcome = "sent"
    /\ Len(successful_parts) = 2 /\ Len(failed_parts) = 1

\* C21: when email_results is over, at least one send was made; and for an
\* artifact over the limit of which no part was sent successfully (the split
\* raised, gave no parts, or every part's send failed) the unsplit artifact
\* was sent as a last resort.
C21_LastResort ==
    mailpc \in {"returned", "raised"} =>
        /\ calls # <<>>
        /\ (is_too_large(size_mb) /\ SentCalls = <<>>) =>
              \E k \in DOMAIN calls : calls[k].what = Unsplit

(***************************************************************************)
(* Claims about long_process and its heartbeat, checked under SpecWorker   *)
(***************************************************************************)
WorkerReturned == wkpc = "returned"
OwnCalls == SelectSeq(status_calls, LAMBDA c : c.by = "long_process")

\* C23: once a signal has been handled while long_process runs, the status
\* stays error: no later write_status call writes running or done, and when
\* long_process has returned (no write having failed) status.txt says error.
C23_SignalMarksFailed ==
    /\ \A i, j \in DOMAIN status_calls :
          (i < j /\ status_calls[i].by = "_graceful")
              => status_calls[j].state \notin {"running", "done"}
    /\ (WorkerReturned /\ signals > 0 /\ wfaults = 0) => status_txt = "error"

HbAlive == hbpc \in {"check", "write", "wait"}

\* C24: while long_process is executing, the heartbeat thread stays in its
\* loop whatever its writes do (the loop ends only once the event is set);
\* on every exit path of long_process the event has been set before it
\* returns; once it is set no further write is started (only a write already
\* in progress can still land), and after long_process has returned the
\* thread ends.
C24_Heartbeat ==
    /\ [](hbpc = "ended" => hb_stop)
    /\ []((wkpc \notin {"idle", "install", "raised"} /\ ~hb_stop) => HbAlive)
    /\ []((wkpc \in {"join", "returned"}) => hb_stop)
    /\ [][(hb_stop /\ hbpc' = "write") => hbpc = "write"]_vars
    /\ [](late <= 1)
    /\ (WorkerReturned ~> (hbpc = "ended"))

\* C24's case: a write of heartbeat.txt failed, the next one was made, and
\* long_process returned 0 with the thread ended
C24_Witness ==
    /\ WorkerReturned /\ rc = 0
    /\ hb_hist = <<"failed", "written">>
    /\ hbpc = "ended"

\* C25: long_process returns 0 only when main returned without an error,
\* result.xlsx has been written and the last status long_process wrote is
\* done; when it returns non-zero the last write_status call wrote error and
\* a write of error.txt was attempted.  When no write failed the status file
\* says error after a non-zero return, and done after a return of 0 that no
\* signal interrupted.
C25_ExitCode ==
    /\ (WorkerReturned /\ rc = 0) =>
          /\ main_out = "ok"
          /\ result_xlsx = "written"
          /\ OwnCalls[Len(OwnCalls)].state = "done"
          /\ (wfaults = 0 /\ signals = 0) => status_txt = "done"
    /\ (WorkerReturned /\ rc # 0) =>
          /\ rc = 1
          /\ status_calls[Len(status_calls)].state = "error"
          /\ OwnCalls[Len(OwnCalls)].state = "error"
          /\ error_tried
          /\ wfaults = 0 => (status_txt = "error" /\ error_txt = "written")

\* C25's case: main returned its triple without an error, saving result.xlsx
\* failed, and long_process returned 1 with status error
C25_Witness ==
    /\ WorkerReturned /\ rc = 1
    /\ main_out = "ok" /\ result_xlsx = "absent"
    /\ error_txt = "written" /\ status_txt = "error"

(***************************************************************************)
(* Further claims about the JobStore, checked under Spec                   *)
(***************************************************************************)
Updates(t) == Saves(t) /\ op[t].name # "create_job"
Stamps(t) == pc[t] = "uj_read" /\ pc'[t] = "save_open"

\* C26: the record written by a successful update_progress, mark_running,
\* mark_completed or mark_failed carries the clock reading of that call as
\* updated_at and the created_at of the record before it; updated_at is not
\* earlier than its previous value nor than created_at, and when the clock
\* advanced since the previous reading the new updated_at is later than
\* the previous one.
C26_UpdatedAtAdvances ==
    [][\A t \in Mutators :
          /\ Updates(t) =>
                /\ committed'.updated_at = now
                /\ committed'.updated_at >= committed.updated_at
                /\ committed'.updated_at >= committed'.created_at
                /\ committed'.created_at = committed.created_at
          /\ (Stamps(t) /\ now' > now) =>
                job_data'[t].updated_at > committed.updated_at]_vars

\* C26's case: the job was created at time 0 and a later update_progress,
\* made after the clock advanced, has been written
C26_Witness ==
    /\ committed # NoRecord
    /\ committed.created_at = 0 /\ committed.updated_at = 1
    /\ Len(log) >= 2 /\ log[Len(log)] = "update_progress"
    /\ file = Json(committed)

(***************************************************************************)
(* Further claims about one run of run_job_async(job_id, main, ...),       *)
(* checked under SpecRun                                                   *)
(***************************************************************************)
Progress == committed.progress

\* C27: the documents are started one after the other in the order 1, 2,
\* ...; the step before the start of document k+1 is the failed reading of
\* document k or the handling of the last variable of the last section of
\* document k, whose results are in the output document; within a section the
\* variables are queried in the order 1, 2, ...; and the persisted
\* current_pdf never decreases and never exceeds total_pdfs.
C27_Ordering ==
    /\ [](\A i \in Segmentations :
             /\ trace[i][2] = Cardinality({j \in Segmentations : j <= i})
             /\ i > 1 =>
                   LET e == trace[i - 1] IN
                   /\ e[2] = trace[i][2] - 1
                   /\ \/ e[1] = "segment_error"
                      \/ /\ \/ e[1] = "query" /\ e[4] = nvars
                            \/ e[1] = "embed_vars" /\ nvars = 0
                         /\ \E r \in DOMAIN output_doc :
                               output_doc[r] = Event("results", e[2], e[3], 0))
    /\ [](\A i \in EventsOf("query") :
             /\ i > 1
             /\ IF trace[i][4] = 1
                THEN trace[i - 1] = Event("embed_vars", trace[i][2], trace[i][3], 0)
                ELSE trace[i - 1] = Event("query", trace[i][2], trace[i][3],
                                          trace[i][4] - 1))
    /\ [][(/\ Len(trace') > Len(trace) /\ trace # <<>>
            /\ trace'[Len(trace')][1] \in {"segment", "segment_error"}
            /\ trace[Len(trace)][1] # "segment_error")
              => trace[Len(trace)][3] = nsec]_vars
    /\ [](Progress.current_pdf <= Progress.total_pdfs)
    /\ [][Progress'.current_pdf >= Progress.current_pdf]_vars

\* C27's case: a job of two documents and two variables has returned, the
\* second variable of the first document was queried before the second
\* document was read, and current_pdf is 2
C27_Witness ==
    /\ npdfs = 2 /\ nvars = 2 /\ fn = "returned"
    /\ \E i, j \in DOMAIN trace :
          /\ i < j
          /\ trace[i] = Event("query", 1, 1, 2)
          /\ trace[j] = Event("segment", 2, 0, 0)
    /\ Progress.current_pdf = 2 /\ Progress.total_pdfs = 2

(***************************************************************************)
(* Further claims about the segmenter, checked under SpecSeg               *)
(***************************************************************************)
HeadingRead == Len(doc') = Len(doc) + 1 /\ doc'[Len(doc')].kind = "heading"
ChunkClosed == Len(text_chunks') = Len(text_chunks) + 1
Contiguous(h) == DOMAIN h = 1..Cardinality(DOMAIN h)

\* what holds of the heading map for every sequence of heading lines: the
\* map recorded in a chunk is the map in effect when the chunk was closed,
\* and a heading of level L leaves the new title at level L, the earlier
\* entries below L as they were, and no entry deeper than L
HeadingMapUpdates ==
    /\ [][ChunkClosed => text_chunks'[Len(text_chunks')].headers = curr_headers]_vars
    /\ [][HeadingRead =>
             LET L == doc'[Len(doc')].level IN
             /\ L \in DOMAIN curr_headers' /\ curr_headers'[L] = Len(doc')
             /\ \A k \in 1..(L - 1) :
                   /\ k \in DOMAIN curr_headers' <=> k \in DOMAIN curr_headers
                   /\ k \in DOMAIN curr_headers => curr_headers'[k] = curr_headers[k]
             /\ \A k \in DOMAIN curr_headers' : k <= L]_vars

\* C28 as stated: the keys of the heading map recorded in each chunk are a
\* contiguous range 1..k, and a heading of level L leaves the new title at
\* level L, the earlier entries below L unchanged and nothing deeper than L.
C28_HeadingMapContiguous ==
    /\ [](\A i \in DOMAIN text_chunks : Contiguous(text_chunks[i].headers))
    /\ HeadingMapUpdates

\* C28, amended: the keys of the heading map recorded in each chunk are
\* heading levels, not necessarily contiguous (a heading of level L read
\* while level L-1 has no entry leaves a gap below L); the map is the one in
\* effect when the chunk was closed, and a heading of level L leaves the new
\* title at level L, the earlier entries below L unchanged and nothing
\* deeper than L.
C28_HeadingMap ==
    /\ [](\A i \in DOMAIN text_chunks :
             DOMAIN text_chunks[i].headers \subseteq HeadingLevels)
    /\ HeadingMapUpdates

\* C28's case: a heading of level 3 and then one of level 1 were read, and
\* the chunk closed after them records the level 1 title alone
C28_Witness ==
    /\ Len(doc) >= 2 /\ Len(text_chunks) >= 1
    /\ doc[1].kind = "heading" /\ doc[1].level = 3
    /\ doc[2].kind = "heading" /\ doc[2].level = 1
    /\ DOMAIN text_chunks[1].headers = {1}
    /\ text_chunks[1].headers[1] = 2

(***************************************************************************)
(* Further claims about generate_all_embeddings, checked under SpecEmbed   *)
(***************************************************************************)
\* the call found no cache file and has built its batches
ColdCall == bi >= 1
RECURSIVE BatchTokens(_)
BatchTokens(b) == IF b = <<>> THEN 0 ELSE chunks[Head(b)] + BatchTokens(Tail(b))

\* C29: with a cold cache the batches, concatenated in order, are exactly
\* the chunk list; no batch is empty or holds more than 8,000 tokens; the
\* requests issued are the batches in order, one each; and a call that
\* returned gives one embedding per chunk, in chunk order.
C29_BatchesPartition ==
    ColdCall =>
        /\ Flatten(batches) = [i \in 1..Len(chunks) |-> i]
        /\ \A k \in DOMAIN batches :
              /\ batches[k] # <<>>
              /\ BatchTokens(batches[k]) <= TokenLimit
        /\ Len(requests) <= Len(batches)
        /\ \A k \in DOMAIN requests : requests[k] = batches[k]
        /\ epc = "returned" =>
              /\ Len(requests) = Len(batches)
              /\ eres.embeddings = [i \in 1..Len(chunks) |-> Embedding(chunks[i])]

(***************************************************************************)
(* The shape of the persisted record, checked under SpecRun                *)
(***************************************************************************)
\* C30: every complete record in the job file of a job driven by create_job
\* and run_job_async has result and error null while Pending or Running,
\* error null when Completed, and a non-empty error and a null result when
\* Failed.
C30_RecordShape ==
    file.kind = "json" =>
        LET r == file.data IN
        /\ r.status \in {PENDING, RUNNING, COMPLETED, FAILED}
        /\ r.status \in {PENDING, RUNNING} =>
              (r.result = NullResult /\ r.error = "null")
        /\ r.status = COMPLETED => r.error = "null"
        /\ r.status = FAILED =>
              (r.error \notin {"null", ""} /\ r.result = NullResult)

\* C30's case: the function raised after progress updates, mark_failed was
\* written, and the record is Failed with the traceback and no result
C30_Witness ==
    /\ wpc = "ended" /\ fn = "raised"
    /\ file.kind = "json"
    /\ file.data.status = FAILED
    /\ file.data.error = "trace" /\ file.data.result = NullResult
    /\ file.data.progress.current_pdf >= 1

====
